---- MODULE Spec2Model ----
(***************************************************************************)
(* The entry store of imag (libimagstore/src/store.rs): the borrow-tracked *)
(* cache of StoreEntry records, the FileLockEntry handles handed out by    *)
(* create/retrieve/get, the write-back on update and drop, and the entry   *)
(* text format.  Hook pipelines are external collaborators: every          *)
(* operation takes the verdict of each pipeline it runs as an input.       *)
(***************************************************************************)
EXTENDS Integers, Sequences, FiniteSets, Bags, TLC

VARIABLES entries, fs, handles, pc, last, watch, aspects, poisoned, alive, imag_tags

vars == <<entries, fs, handles, pc, last, watch, aspects, poisoned, alive,
         imag_tags>>

(***************************************************************************)
(* Bounds and input domains                                                *)
(***************************************************************************)
\* threads whose get is followed step by step through its existence test; every
\* other operation takes the cache lock once and is one step of some further thread
NumThreads == 1

Threads == 1..NumThreads

\* logical paths of the entries the callers address
Ids == {"a", "b"}

\* Store::location
Root == "/store"

NoBase == "nobase"

Bases == {NoBase, Root}

\* the ids callers pass in: baseless, or based at the store root
StoreIds == [base : Bases, path : Ids]

\* verdict of one hook pipeline run: no abort-error, or an abort-error
HookVerdicts == {"ok", "abort"}

(***************************************************************************)
(* StoreId                                                                 *)
(***************************************************************************)
with_base(id, b) == [id EXCEPT !.base = b]

\* equality (and hashing) of StoreIds compares the logical path only
StoreIdEq(x, y) == x.path = y.path

\* base (+) logical path; the store only projects ids it has based at Root
into_pathbuf(id) == <<id.base, id.path>>

FsPaths == {into_pathbuf(with_base(id, Root)) : id \in StoreIds}

(***************************************************************************)
(* Header values and the entry text format.  A text is a sequence of       *)
(* lines; nl tells whether the line is terminated by a newline.            *)
(***************************************************************************)
Line(kind, key, val, nl) == [kind |-> kind, key |-> key, val |-> val, nl |-> nl]

FenceLine == Line("fence", "", "---", TRUE)

\* a header: whether the imag table is there, and its key/value pairs in key order
CurrentVersion == "0.0.3"

default_header == [imag |-> TRUE, kv |-> << <<"version", CurrentVersion>> >>]

SemVers == {"0.0.0", CurrentVersion}

verify(header) ==
    /\ header.imag
    /\ \E i \in 1..Len(header.kv) :
          header.kv[i][1] = "version" /\ header.kv[i][2] \in SemVers

\* toml::ser::to_string of the header
header_to_text(header) ==
    IF header.imag
    THEN <<Line("table", "imag", "", TRUE)>> \o
         [i \in 1..Len(header.kv) |-> Line("kv", header.kv[i][1], header.kv[i][2], TRUE)]
    ELSE << >>

\* Value::parse of the header text
header_parse(text) ==
    IF text = << >>
    THEN [ok |-> TRUE, header |-> [imag |-> FALSE, kv |-> << >>]]
    ELSE IF /\ text[1].kind = "table"
            /\ \A i \in 2..Len(text) : text[i].kind = "kv"
         THEN [ok |-> TRUE,
               header |-> [imag |-> TRUE,
                           kv |-> [i \in 1..(Len(text) - 1) |->
                                     <<text[i + 1].key, text[i + 1].val>>]]]
         ELSE [ok |-> FALSE, header |-> [imag |-> FALSE, kv |-> << >>]]

Entry_new(loc) == [location |-> loc, header |-> default_header, content |-> << >>]

NoEntry == [location |-> [base |-> NoBase, path |-> ""],
            header |-> [imag |-> FALSE, kv |-> << >>], content |-> << >>]

\* Entry::to_str: "---\n{header}---\n{content}"
to_str(entry) ==
    <<FenceLine>> \o header_to_text(entry.header) \o <<FenceLine>> \o entry.content

Min(S) == CHOOSE x \in S : \A y \in S : x <= y

Max(S) == CHOOSE x \in S : \A y \in S : x >= y

\* Entry::from_str: the regex ^---$ (?P<header>.*) ^---$\n (?P<content>.*) with
\* the flags s, m, x: leftmost opening fence, greedy header, closing fence
\* followed by a newline
from_str(loc, text) ==
    LET closing == {j \in 1..Len(text) : text[j].kind = "fence" /\ text[j].nl}
        opening == {i \in 1..Len(text) :
                       text[i].kind = "fence" /\ \E j \in closing : j > i}
    IN  IF opening = {}
        THEN [res |-> <<"MalformedEntry">>, entry |-> NoEntry]
        ELSE LET i == Min(opening)
                 j == Max(closing)
                 h == header_parse(SubSeq(text, i + 1, j - 1))
             IN  IF h.ok
                 THEN [res |-> << >>,
                       entry |-> [location |-> loc, header |-> h.header,
                                  content |-> SubSeq(text, j + 1, Len(text))]]
                 ELSE [res |-> <<"HeaderError">>, entry |-> NoEntry]

(***************************************************************************)
(* File abstraction: the backing storage maps a path to a file             *)
(***************************************************************************)
NoFile == [exists |-> FALSE, text |-> << >>]

File(text) == [exists |-> TRUE, text |-> text]

\* FileAbstraction::get_file_content
get_file_content(f, path) ==
    IF f[path].exists
    THEN [res |-> << >>, text |-> f[path].text]
    ELSE [res |-> <<"FileNotFound">>, text |-> << >>]

\* FileAbstraction::write_file_content
write_file_content(f, path, text) == [f EXCEPT ![path] = File(text)]

(***************************************************************************)
(* StoreEntry                                                              *)
(***************************************************************************)
StoreEntry_new(id) == [id |-> id, file |-> into_pathbuf(id), status |-> "Present"]

is_borrowed(se) == se.status = "Borrowed"

\* get_entry without the borrow test
get_entry_unchecked(se, f) ==
    LET c == get_file_content(f, se.file)
    IN  IF c.res = <<"FileNotFound">>
        THEN [res |-> << >>, entry |-> Entry_new(se.id)]
        ELSE from_str(se.id, c.text)

\* get_entry that reports a missing file instead of making a default entry
get_entry_no_default(se, f) ==
    IF ~is_borrowed(se)
    THEN LET c == get_file_content(f, se.file)
         IN  IF c.res # << >>
             THEN [res |-> c.res, entry |-> NoEntry]
             ELSE from_str(se.id, c.text)
    ELSE [res |-> <<"EntryAlreadyBorrowed">>, entry |-> NoEntry]

get_entry(se, f) ==
    IF ~is_borrowed(se)
    THEN LET c == get_file_content(f, se.file)
         IN  IF c.res # << >>
             THEN IF c.res = <<"FileNotFound">>
                  THEN [res |-> << >>, entry |-> Entry_new(se.id)]
                  ELSE [res |-> c.res, entry |-> NoEntry]
             ELSE from_str(se.id, c.text)
    ELSE [res |-> <<"EntryAlreadyBorrowed">>, entry |-> NoEntry]

\* write_entry that leaves the file as it is
write_entry_skipped(se, f, entry) == f

write_entry(se, f, entry) ==
    IF is_borrowed(se)
    THEN write_file_content(f, se.file, to_str(entry))
    ELSE f

(***************************************************************************)
(* The cache: HashMap<StoreId, StoreEntry>                                 *)
(***************************************************************************)
contains_key(es, id) == \E se \in es : StoreIdEq(se.id, id)

cache_get(es, id) == CHOOSE se \in es : StoreIdEq(se.id, id)

cache_remove(es, id) == {se \in es : ~StoreIdEq(se.id, id)}

cache_insert(es, id, se) == cache_remove(es, id) \cup {se}

(***************************************************************************)
(* Store operations.  A store state s is [entries, fs, handles]; every     *)
(* operation yields the state after it together with its result: res is    *)
(* the chain of error kinds, outermost first, and << >> when it is Ok.     *)
(***************************************************************************)
Ok == << >>

\* ran lists the aspect groups that the operation executed, in order, each
\* with the path of the id (or of the handle's entry) it was given
Done(es, f, hs, res, out, entry) ==
    [entries |-> es, fs |-> f, handles |-> hs, res |-> res, out |-> out, entry |-> entry,
     ran |-> << >>, calls |-> << >>]

Fail(s, res) == Done(s.entries, s.fs, s.handles, res, "", NoEntry)

add_handle(hs, fle) == hs (+) SetToBag({fle})

remove_handle(hs, fle) == hs (-) SetToBag({fle})

PreHookError(call) == <<call, "HookExecutionError", "PreHookExecuteError">>

PostHookError(call) == <<call, "HookExecutionError", "PostHookExecuteError">>

\* one execution of an aspect group on an id
Group(name, id) == << <<name, id.path>> >>

Ran(r, groups) == [r EXCEPT !.ran = groups]

(***************************************************************************)
(* The hook pipeline.  A hook is known by the set of outcomes it may       *)
(* return, an aspect is the sequence of its hooks in registration order,   *)
(* an aspect group the sequence of its aspects in configured order.  One   *)
(* execution of a group is decided by what every hook returns when it is   *)
(* called: outs[a][h] for hook h of aspect a.  An execution yields the     *)
(* verdict and the hooks that were called, <<a, h, outcome>>, in order.    *)
(***************************************************************************)
AllOutcomes == {"ok", "continue", "abort"}

\* an aspect that ends on any error of a hook, aborting or not
RECURSIVE Aspect_access_strict(_, _, _)
Aspect_access_strict(a, hooks, k) ==
    IF k > Len(hooks)
    THEN [res |-> "ok", calls |-> << >>]
    ELSE IF hooks[k] # "ok"
    THEN [res |-> "abort", calls |-> << <<a, k, hooks[k]>> >>]
    ELSE LET rest == Aspect_access_strict(a, hooks, k + 1)
         IN  [rest EXCEPT !.calls = << <<a, k, hooks[k]>> >> \o @]

\* Aspect::access / Aspect::access_mut from hook k on: the hooks one after the
\* other; an aborting error ends the aspect, any other error is logged
RECURSIVE Aspect_access(_, _, _)
Aspect_access(a, hooks, k) ==
    IF k > Len(hooks)
    THEN [res |-> "ok", calls |-> << >>]
    ELSE IF hooks[k] = "abort"
    THEN [res |-> "abort", calls |-> << <<a, k, hooks[k]>> >>]
    ELSE LET rest == Aspect_access(a, hooks, k + 1)
         IN  [rest EXCEPT !.calls = << <<a, k, hooks[k]>> >> \o @]

\* a fold that goes through every aspect and returns the first Err afterwards
RECURSIVE fold_result_all(_, _)
fold_result_all(outs, a) ==
    IF a > Len(outs)
    THEN [res |-> "ok", calls |-> << >>]
    ELSE LET r    == Aspect_access(a, outs[a], 1)
             rest == fold_result_all(outs, a + 1)
         IN  [res   |-> IF r.res = "abort" THEN "abort" ELSE rest.res,
              calls |-> r.calls \o rest.calls]

\* FoldResult::fold_result from aspect a on: the first Err ends the fold
RECURSIVE fold_result(_, _)
fold_result(outs, a) ==
    IF a > Len(outs)
    THEN [res |-> "ok", calls |-> << >>]
    ELSE LET r == Aspect_access(a, outs[a], 1)
         IN  IF r.res = "abort"
             THEN r
             ELSE LET rest == fold_result(outs, a + 1)
                  IN  [rest EXCEPT !.calls = r.calls \o @]

\* Store::execute_hooks_for_id
execute_hooks_for_id(outs) == fold_result(outs, 1)

\* Store::execute_hooks_for_mut_file
execute_hooks_for_mut_file(outs) == fold_result(outs, 1)

\* the groups whose hooks are given the handle; the others are given the id
MutFileGroups == {"post_create_aspects", "post_retrieve_aspects",
                  "pre_update_aspects", "post_update_aspects"}

execute_hooks(group, outs) ==
    IF group \in MutFileGroups
    THEN execute_hooks_for_mut_file(outs)
    ELSE execute_hooks_for_id(outs)

\* _update that writes the entry without verifying its header
_update_unverified(s, entry, modify_presence, hk) ==
    LET pre  == Group("pre_update_aspects", entry.location)
        both == pre \o Group("post_update_aspects", entry.location)
    IN  IF hk.upre = "abort"
        THEN Ran(Fail(s, PreHookError("UpdateCallError")), pre)
        ELSE IF ~contains_key(s.entries, entry.location)
        THEN Ran(Fail(s, <<"IdNotFound">>), pre)
        ELSE LET se == cache_get(s.entries, entry.location)
             IN  IF ~is_borrowed(se)
                 THEN Ran(Fail(s, <<"panic: Tried to update a non borrowed entry.">>), pre)
                 ELSE LET f1  == write_entry(se, s.fs, entry)
                          es1 == IF modify_presence
                                 THEN cache_insert(s.entries, se.id,
                                                   [se EXCEPT !.status = "Present"])
                                 ELSE s.entries
                      IN  Ran(Done(es1, f1, s.handles,
                                   IF hk.upost = "abort"
                                   THEN PostHookError("UpdateCallError") ELSE Ok,
                                   "", NoEntry), both)

\* Store::_update; hk.upre and hk.upost are the verdicts of the pre-update and
\* post-update pipelines
_update(s, entry, modify_presence, hk) ==
    LET pre  == Group("pre_update_aspects", entry.location)
        both == pre \o Group("post_update_aspects", entry.location)
    IN  IF hk.upre = "abort"
        THEN Ran(Fail(s, PreHookError("UpdateCallError")), pre)
        ELSE IF hk.lock = "poisoned"
        THEN Ran(Fail(s, <<"LockPoisoned">>), pre)
        ELSE IF ~contains_key(s.entries, entry.location)
        THEN Ran(Fail(s, <<"IdNotFound">>), pre)
        ELSE LET se == cache_get(s.entries, entry.location)
             IN  IF ~is_borrowed(se)
                 THEN Ran(Fail(s, <<"panic: Tried to update a non borrowed entry.">>), pre)
                 ELSE IF ~verify(entry.header)
                 THEN Ran(Fail(s, <<"HeaderInconsistency">>), pre)
                 ELSE LET f1  == write_entry(se, s.fs, entry)
                          es1 == IF modify_presence
                                 THEN cache_insert(s.entries, se.id,
                                                   [se EXCEPT !.status = "Present"])
                                 ELSE s.entries
                      IN  Ran(Done(es1, f1, s.handles,
                                   IF hk.upost = "abort"
                                   THEN PostHookError("UpdateCallError") ELSE Ok,
                                   "", NoEntry), both)

\* update that ends the borrow, as the release of the handle does
update_releases(s, entry, hk) ==
    LET u == _update(s, entry, TRUE, hk)
    IN  [u EXCEPT !.res = IF u.res = Ok THEN Ok ELSE <<"UpdateCallError">> \o u.res]

\* Store::update
update(s, entry, hk) ==
    LET u == _update(s, entry, FALSE, hk)
    IN  [u EXCEPT !.res = IF u.res = Ok THEN Ok ELSE <<"UpdateCallError">> \o u.res]

\* Drop for FileLockEntry: the handle is gone, whatever _update returns
drop(s, entry, hk) ==
    LET u == _update(s, entry, TRUE, hk)
    IN  [u EXCEPT !.handles = remove_handle(s.handles, entry), !.entry = entry]

\* a handle that an operation built but does not return is dropped there
drop_unreturned(s, entry, hk, res) ==
    LET d == drop([s EXCEPT !.handles = add_handle(s.handles, entry)], entry, hk)
    IN  [d EXCEPT !.res = res, !.entry = NoEntry]

\* create that keys the record by the id as the caller passed it
create_unbased(s, id0, hk) ==
    LET pre  == Group("pre_create_aspects", id0)
        both == pre \o Group("post_create_aspects", id0)
    IN  IF hk.pre = "abort"
        THEN Ran(Fail(s, PreHookError("CreateCallError")), pre)
        ELSE IF contains_key(s.entries, id0)
        THEN Ran(Fail(s, <<"CreateCallError", "EntryAlreadyExists">>), pre)
        ELSE LET se  == [StoreEntry_new(id0) EXCEPT !.status = "Borrowed"]
                 s1  == [s EXCEPT !.entries = cache_insert(s.entries, id0, se)]
                 fle == Entry_new(id0)
             IN  IF hk.post = "abort"
                 THEN LET d == drop_unreturned(s1, fle, hk, PostHookError("CreateCallError"))
                      IN  Ran(d, both \o d.ran)
                 ELSE Ran(Done(s1.entries, s1.fs, add_handle(s1.handles, fle),
                               Ok, "Some", NoEntry), both)

\* create that does not look whether the cache holds the id
create_unchecked(s, id0, hk) ==
    LET id   == with_base(id0, Root)
        pre  == Group("pre_create_aspects", id)
        both == pre \o Group("post_create_aspects", id)
    IN  IF hk.pre = "abort"
        THEN Ran(Fail(s, PreHookError("CreateCallError")), pre)
        ELSE LET se  == [StoreEntry_new(id) EXCEPT !.status = "Borrowed"]
                 s1  == [s EXCEPT !.entries = cache_insert(s.entries, id, se)]
                 fle == Entry_new(id)
             IN  IF hk.post = "abort"
                 THEN LET d == drop_unreturned(s1, fle, hk, PostHookError("CreateCallError"))
                      IN  Ran(d, both \o d.ran)
                 ELSE Ran(Done(s1.entries, s1.fs, add_handle(s1.handles, fle),
                               Ok, "Some", NoEntry), both)

\* create that inserts the record before it runs the pre-create hooks
create_vetoed_late(s, id0, hk) ==
    LET id   == with_base(id0, Root)
        pre  == Group("pre_create_aspects", id)
        both == pre \o Group("post_create_aspects", id)
    IN  IF contains_key(s.entries, id)
        THEN Ran(Fail(s, IF hk.pre = "abort" THEN PreHookError("CreateCallError")
                         ELSE <<"CreateCallError", "EntryAlreadyExists">>), pre)
        ELSE LET se  == [StoreEntry_new(id) EXCEPT !.status = "Borrowed"]
                 s1  == [s EXCEPT !.entries = cache_insert(s.entries, id, se)]
                 fle == Entry_new(id)
             IN  IF hk.pre = "abort"
                 THEN Ran(Fail(s1, PreHookError("CreateCallError")), pre)
                 ELSE IF hk.post = "abort"
                 THEN LET d == drop_unreturned(s1, fle, hk, PostHookError("CreateCallError"))
                      IN  Ran(d, both \o d.ran)
                 ELSE Ran(Done(s1.entries, s1.fs, add_handle(s1.handles, fle),
                               Ok, "Some", NoEntry), both)

\* Store::create
create(s, id0, hk) ==
    LET id   == with_base(id0, Root)
        pre  == Group("pre_create_aspects", id)
        both == pre \o Group("post_create_aspects", id)
    IN  IF hk.pre = "abort"
        THEN Ran(Fail(s, PreHookError("CreateCallError")), pre)
        ELSE IF hk.lock = "poisoned"
        THEN Ran(Fail(s, <<"CreateCallError", "LockPoisoned">>), pre)
        ELSE IF contains_key(s.entries, id)
        THEN Ran(Fail(s, <<"CreateCallError", "EntryAlreadyExists">>), pre)
        ELSE LET se  == [StoreEntry_new(id) EXCEPT !.status = "Borrowed"]
                 s1  == [s EXCEPT !.entries = cache_insert(s.entries, id, se)]
                 fle == Entry_new(id)
             IN  IF hk.post = "abort"
                 THEN LET d == drop_unreturned(s1, fle, hk, PostHookError("CreateCallError"))
                      IN  Ran(d, both \o d.ran)
                 ELSE Ran(Done(s1.entries, s1.fs, add_handle(s1.handles, fle),
                               Ok, "Some", NoEntry), both)

\* Store::retrieve
retrieve(s, id0, hk) ==
    LET id   == with_base(id0, Root)
        pre  == Group("pre_retrieve_aspects", id)
        both == pre \o Group("post_retrieve_aspects", id)
    IN  IF hk.pre = "abort"
        THEN Ran(Fail(s, PreHookError("RetrieveCallError")), pre)
        ELSE IF hk.lock = "poisoned"
        THEN Ran(Fail(s, <<"RetrieveCallError", "LockPoisoned">>), pre)
        ELSE LET se == IF contains_key(s.entries, id)
                       THEN cache_get(s.entries, id)
                       ELSE StoreEntry_new(id)
                 e  == get_entry(se, s.fs)
                 s1 == [s EXCEPT !.entries =
                           cache_insert(s.entries, id, [se EXCEPT !.status = "Borrowed"])]
             IN  IF e.res # Ok
                 THEN Ran(Fail(s1, <<"RetrieveCallError">> \o e.res), pre)
                 ELSE IF hk.post = "abort"
                 THEN LET d == drop_unreturned(s1, e.entry, hk,
                                               PostHookError("RetrieveCallError"))
                      IN  Ran(d, both \o d.ran)
                 ELSE Ran(Done(s1.entries, s1.fs, add_handle(s1.handles, e.entry),
                               Ok, "Some", NoEntry), both)

\* FileAbstraction::remove_file
remove_file(f, path) ==
    IF f[path].exists
    THEN [res |-> Ok, fs |-> [f EXCEPT ![path] = NoFile]]
    ELSE [res |-> <<"FileError">>, fs |-> f]

\* FileAbstraction::copy
copy(f, from, to) ==
    IF f[from].exists
    THEN [res |-> Ok, fs |-> [f EXCEPT ![to] = f[from]]]
    ELSE [res |-> <<"FileError">>, fs |-> f]

\* FileAbstraction::rename
rename(f, from, to) ==
    IF f[from].exists
    THEN [res |-> Ok, fs |-> [f EXCEPT ![from] = NoFile, ![to] = f[from]]]
    ELSE [res |-> <<"EntryRenameError">>, fs |-> f]

\* StoreId::exists
exists(f, id) == f[into_pathbuf(id)].exists

\* delete that removes the file and forgets to remove the record
delete_keeps_record(s, id0, hk) ==
    LET id   == with_base(id0, Root)
        pre  == Group("pre_delete_aspects", id)
        both == pre \o Group("post_delete_aspects", id)
    IN  IF hk.pre = "abort"
        THEN Ran(Fail(s, PreHookError("DeleteCallError")), pre)
        ELSE IF ~contains_key(s.entries, id)
        THEN Ran(Fail(s, <<"DeleteCallError", "FileNotFound">>), pre)
        ELSE IF is_borrowed(cache_get(s.entries, id))
        THEN Ran(Fail(s, <<"DeleteCallError", "IdLocked">>), pre)
        ELSE LET r == remove_file(s.fs, into_pathbuf(with_base(id, Root)))
             IN  IF r.res # Ok
                 THEN Ran(Done(s.entries, s.fs, s.handles, <<"DeleteCallError">> \o r.res,
                               "", NoEntry), pre)
                 ELSE Ran(Done(s.entries, r.fs, s.handles,
                               IF hk.post = "abort"
                               THEN PostHookError("DeleteCallError") ELSE Ok,
                               "", NoEntry), both)

\* delete that does not look whether the entry is borrowed
delete_ignores_borrow(s, id0, hk) ==
    LET id   == with_base(id0, Root)
        pre  == Group("pre_delete_aspects", id)
        both == pre \o Group("post_delete_aspects", id)
    IN  IF hk.pre = "abort"
        THEN Ran(Fail(s, PreHookError("DeleteCallError")), pre)
        ELSE IF ~contains_key(s.entries, id)
        THEN Ran(Fail(s, <<"DeleteCallError", "FileNotFound">>), pre)
        ELSE LET es1 == cache_remove(s.entries, id)
                 r   == remove_file(s.fs, into_pathbuf(with_base(id, Root)))
             IN  IF r.res # Ok
                 THEN Ran(Done(es1, s.fs, s.handles, <<"DeleteCallError">> \o r.res,
                               "", NoEntry), pre)
                 ELSE Ran(Done(es1, r.fs, s.handles,
                               IF hk.post = "abort"
                               THEN PostHookError("DeleteCallError") ELSE Ok,
                               "", NoEntry), both)

\* Store::delete
delete(s, id0, hk) ==
    LET id   == with_base(id0, Root)
        pre  == Group("pre_delete_aspects", id)
        both == pre \o Group("post_delete_aspects", id)
    IN  IF hk.pre = "abort"
        THEN Ran(Fail(s, PreHookError("DeleteCallError")), pre)
        ELSE IF hk.lock = "poisoned"
        THEN Ran(Fail(s, <<"DeleteCallError", "LockPoisoned">>), pre)
        ELSE IF ~contains_key(s.entries, id)
        THEN Ran(Fail(s, <<"DeleteCallError", "FileNotFound">>), pre)
        ELSE IF is_borrowed(cache_get(s.entries, id))
        THEN Ran(Fail(s, <<"DeleteCallError", "IdLocked">>), pre)
        ELSE LET es1 == cache_remove(s.entries, id)
                 r   == remove_file(s.fs, into_pathbuf(with_base(id, Root)))
             IN  IF r.res # Ok
                 THEN Ran(Done(es1, s.fs, s.handles, <<"DeleteCallError">> \o r.res,
                               "", NoEntry), pre)
                 ELSE Ran(Done(es1, r.fs, s.handles,
                               IF hk.post = "abort"
                               THEN PostHookError("DeleteCallError") ELSE Ok,
                               "", NoEntry), both)

\* retrieve_copy that reads the file whatever the status of the record
retrieve_copy_unlocked(s, id0, hk) ==
    LET id == with_base(id0, Root)
        e  == get_entry(StoreEntry_new(id), s.fs)
    IN  Done(s.entries, s.fs, s.handles, e.res,
             IF e.res = Ok THEN "Entry" ELSE "", e.entry)

\* Store::retrieve_copy
retrieve_copy(s, id0, hk) ==
    LET id == with_base(id0, Root)
    IN  IF hk.lock = "poisoned"
        THEN Fail(s, <<"RetrieveCopyCallError", "LockPoisoned">>)
        ELSE IF contains_key(s.entries, id) /\ is_borrowed(cache_get(s.entries, id))
        THEN Fail(s, <<"RetrieveCopyCallError", "IdLocked">>)
        ELSE LET e == get_entry(StoreEntry_new(id), s.fs)
             IN  Done(s.entries, s.fs, s.handles, e.res,
                      IF e.res = Ok THEN "Entry" ELSE "", e.entry)

\* Store::save_to_other_location; hk.post is the verdict of the post-move pipeline
save_to_other_location(s, entry, new_id0, remove_old, hk) ==
    LET new_id == with_base(new_id0, Root)
        old_id == entry.location
        old_id_as_path == into_pathbuf(with_base(old_id, Root))
        new_id_as_path == into_pathbuf(with_base(new_id, Root))
    IN  IF hk.lock = "poisoned"
        THEN Fail(s, <<"MoveCallError", "LockPoisoned">>)
        ELSE IF contains_key(s.entries, new_id)
        THEN Fail(s, <<"MoveCallError", "EntryAlreadyExists">>)
        ELSE LET c == copy(s.fs, old_id_as_path, new_id_as_path)
                 r == IF c.res = Ok /\ remove_old
                      THEN remove_file(c.fs, old_id_as_path)
                      ELSE c
             IN  IF r.res # Ok
                 THEN Done(s.entries, r.fs, s.handles,
                           <<"MoveCallError", "FileError">>, "", NoEntry)
                 ELSE Ran(Done(s.entries, r.fs, s.handles,
                               IF hk.post = "abort"
                               THEN PostHookError("MoveCallError") ELSE Ok,
                               "", NoEntry), Group("post_move_aspects", new_id))

\* Store::save_to
save_to(s, entry, new_id, hk) == save_to_other_location(s, entry, new_id, FALSE, hk)

\* Store::save_as: the handle is taken by value and dropped when the call returns
save_as(s, entry, new_id, hk) ==
    LET r == save_to_other_location(s, entry, new_id, TRUE, hk)
        d == drop(r, entry, hk)
    IN  [d EXCEPT !.res = r.res, !.entry = NoEntry, !.ran = r.ran \o d.ran]

\* the assertion of move_by_id, when it fails
MoveAssertion == "panic: assertion failed: hsmap.remove(&old_id).and_then(..).is_none()"

\* the re-keying inside move_by_id: the record of old_id, if there is one, is
\* removed and inserted under new_id; replaced says that the insert put it in
\* the place of a record that new_id had, which the assertion rules out
rekey(es, old_id, new_id) ==
    IF contains_key(es, old_id)
    THEN [entries  |-> cache_insert(cache_remove(es, old_id), new_id,
                                    [cache_get(es, old_id) EXCEPT !.id = new_id]),
          replaced |-> contains_key(cache_remove(es, old_id), new_id)]
    ELSE [entries |-> es, replaced |-> FALSE]

\* move_by_id that renames the file and leaves the cache record under old_id
move_by_id_no_rekey(s, old_id0, new_id0, hk) ==
    LET new_id == with_base(new_id0, Root)
        old_id == with_base(old_id0, Root)
        first  == << <<"pre_move_aspects", old_id.path>> >>
        both   == first \o << <<"pre_move_aspects", new_id.path>> >>
    IN  IF hk.pre = "abort"
        THEN [Fail(s, PreHookError("MoveByIdCallError")) EXCEPT !.ran = first]
        ELSE IF contains_key(s.entries, new_id)
        THEN [Fail(s, <<"EntryAlreadyExists">>) EXCEPT !.ran = first]
        ELSE IF contains_key(s.entries, old_id) /\ is_borrowed(cache_get(s.entries, old_id))
        THEN [Fail(s, <<"EntryAlreadyBorrowed">>) EXCEPT !.ran = first]
        ELSE LET r == rename(s.fs, into_pathbuf(with_base(old_id, Root)),
                             into_pathbuf(with_base(new_id, Root)))
             IN  IF r.res # Ok
                 THEN [Fail(s, r.res) EXCEPT !.ran = first]
                 ELSE [Done(s.entries, r.fs, s.handles,
                            IF hk.post = "abort"
                            THEN PostHookError("MoveByIdCallError") ELSE Ok,
                            "", NoEntry) EXCEPT !.ran = both]

\* move_by_id that renames without looking at the cache
move_by_id_unguarded(s, old_id0, new_id0, hk) ==
    LET new_id == with_base(new_id0, Root)
        old_id == with_base(old_id0, Root)
        first  == << <<"pre_move_aspects", old_id.path>> >>
        both   == first \o << <<"pre_move_aspects", new_id.path>> >>
    IN  IF hk.pre = "abort"
        THEN [Fail(s, PreHookError("MoveByIdCallError")) EXCEPT !.ran = first]
        ELSE LET r == rename(s.fs, into_pathbuf(with_base(old_id, Root)),
                             into_pathbuf(with_base(new_id, Root)))
             IN  IF r.res # Ok
                 THEN [Fail(s, r.res) EXCEPT !.ran = first]
                 ELSE LET k == rekey(s.entries, old_id, new_id)
                      IN  IF k.replaced
                          THEN [Done(k.entries, r.fs, s.handles, <<MoveAssertion>>,
                                     "", NoEntry) EXCEPT !.ran = first]
                          ELSE [Done(k.entries, r.fs, s.handles,
                                     IF hk.post = "abort"
                                     THEN PostHookError("MoveByIdCallError") ELSE Ok,
                                     "", NoEntry) EXCEPT !.ran = both]

\* Store::move_by_id; hk.pre is the verdict of the pipeline run on old_id before
\* the move and hk.post that of the pipeline run on new_id after it, which is
\* the pre-move group again
move_by_id(s, old_id0, new_id0, hk) ==
    LET new_id == with_base(new_id0, Root)
        old_id == with_base(old_id0, Root)
        first  == << <<"pre_move_aspects", old_id.path>> >>
        both   == first \o << <<"pre_move_aspects", new_id.path>> >>
    IN  IF hk.pre = "abort"
        THEN [Fail(s, PreHookError("MoveByIdCallError")) EXCEPT !.ran = first]
        ELSE IF hk.lock = "poisoned"
        THEN [Fail(s, <<"LockPoisoned">>) EXCEPT !.ran = first]
        ELSE IF contains_key(s.entries, new_id)
        THEN [Fail(s, <<"EntryAlreadyExists">>) EXCEPT !.ran = first]
        ELSE IF contains_key(s.entries, old_id) /\ is_borrowed(cache_get(s.entries, old_id))
        THEN [Fail(s, <<"EntryAlreadyBorrowed">>) EXCEPT !.ran = first]
        ELSE LET r == rename(s.fs, into_pathbuf(with_base(old_id, Root)),
                             into_pathbuf(with_base(new_id, Root)))
             IN  IF r.res # Ok
                 THEN [Fail(s, r.res) EXCEPT !.ran = first]
                 ELSE LET k == rekey(s.entries, old_id, new_id)
                      IN  IF k.replaced
                          THEN [Done(k.entries, r.fs, s.handles, <<MoveAssertion>>,
                                     "", NoEntry) EXCEPT !.ran = first]
                          ELSE [Done(k.entries, r.fs, s.handles,
                                     IF hk.post = "abort"
                                     THEN PostHookError("MoveByIdCallError") ELSE Ok,
                                     "", NoEntry) EXCEPT !.ran = both]

\* the id that the drop of the store hands to the unload hooks
StoreRoot == [base |-> Root, path |-> "."]

\* a drop of the store that an unload hook can refuse
Store_drop_vetoed(s, hk) ==
    Ran(Done(s.entries, s.fs, s.handles,
             IF hk.pre = "abort" THEN PreHookError("StoreUnload") ELSE Ok, "", NoEntry),
        IF hk.pre = "abort" THEN << >> ELSE Group("store_unload_aspects", StoreRoot))

\* Drop for Store, the body: hk.pre is the verdict of the unload group, which is
\* logged; the fields of the store, the cache among them, go after it
Store_drop(s, hk) ==
    Ran(Done(s.entries, s.fs, s.handles, Ok, "", NoEntry),
        Group("store_unload_aspects", StoreRoot))

\* get that delegates to retrieve without the existence test
get_always_retrieve(s, id0, hk) ==
    LET r == retrieve(s, with_base(id0, Root), hk)
    IN  [r EXCEPT !.res = IF r.res = Ok THEN Ok ELSE <<"GetCallError">> \o r.res]

\* Store::get run without interference: the existence test, then retrieve
get(s, id0, hk) ==
    LET id == with_base(id0, Root)
    IN  IF ~exists(s.fs, id) /\ hk.lock = "poisoned"
        THEN Fail(s, <<"GetCallError", "LockPoisoned">>)
        ELSE IF ~(exists(s.fs, id) \/ contains_key(s.entries, id))
        THEN Done(s.entries, s.fs, s.handles, Ok, "None", NoEntry)
        ELSE LET r == retrieve(s, id, hk)
             IN  [r EXCEPT !.res = IF r.res = Ok THEN Ok ELSE <<"GetCallError">> \o r.res]

(***************************************************************************)
(* What callers write into a borrowed entry, and what the store directory  *)
(* holds when the process starts                                           *)
(***************************************************************************)
Hai == <<Line("raw", "", "Hai", FALSE)>>

FencedContent == <<FenceLine, Line("raw", "", "Hai", FALSE)>>

EditedHeader == [imag |-> TRUE, kv |-> << <<"note", "x">>, <<"version", CurrentVersion>> >>]

BrokenHeader == [imag |-> TRUE, kv |-> << <<"version", "000">> >>]

Edits == { [header |-> EditedHeader,   content |-> Hai],
           [header |-> BrokenHeader,   content |-> << >>],
           [header |-> default_header, content |-> FencedContent] }

\* the literal of the store's tests: ---\n[imag]\nversion = "0.0.3"\n---\nHai
TEST_ENTRY == <<FenceLine, Line("table", "imag", "", TRUE),
                Line("kv", "version", "0.0.3", TRUE), FenceLine,
                Line("raw", "", "Hai", FALSE)>>

\* an entry file whose header parses and does not verify: no version
Unversioned == <<FenceLine, Line("table", "imag", "", TRUE), FenceLine,
                 Line("raw", "", "Hai", FALSE)>>

\* how many lines the texts handed to Entry::from_str have at most
MaxLines == 5

\* the lines of these texts; only the last line of a text may lack its newline
TextLines == {FenceLine, Line("table", "imag", "", TRUE),
              Line("kv", "version", CurrentVersion, TRUE),
              Line("raw", "", "Hai", TRUE), Line("raw", "", "Hai", FALSE)}

TextsOver(lines, n) ==
    UNION {{t \in [1..k -> lines] : \A i \in 1..(k - 1) : t[i].nl} : k \in 0..n}

Texts == TextsOver(TextLines, MaxLines)

\* the entries handed to Entry::to_str: a header that verifies or not, and a
\* content of raw lines and lines that are ---
EntryInputs ==
    {[location |-> [base |-> Root, path |-> "a"], header |-> h, content |-> c] :
        h \in {default_header, EditedHeader, BrokenHeader},
        c \in TextsOver({FenceLine, Line("raw", "", "Hai", TRUE),
                         Line("raw", "", "Hai", FALSE)}, MaxLines - 3)}

\* no entry, a well-formed entry, or a file that is not an entry at all
InitFiles == {NoFile, File(TEST_ENTRY), File(Hai)}

(***************************************************************************)
(* Tags (libimagentrytag/src/tagable.rs): the value that the header of an  *)
(* entry holds at imag.tags, read and written through the Tagable trait    *)
(***************************************************************************)
\* how many values the array at imag.tags holds, and how many tags a caller
\* passes in one call
MaxTags == 2

TagNames == {"foo", "bar"}

NotATagName == "not a tag"

\* util::is_tag
is_tag(s) == s \in TagNames

\* toml values: strings, and a value of another type
String(s) == [type |-> "String", s |-> s]

Values == {String(s) : s \in TagNames \cup {NotATagName}} \cup
          {[type |-> "Integer", s |-> "1"]}

\* what EntryHeader::read("imag.tags") returns: None, Some(Value::Array(..)) or
\* Some of a value of another type
Absent == [kind |-> "None", items |-> << >>]

Array(items) == [kind |-> "Array", items |-> items]

Scalar(v) == [kind |-> v.type, items |-> <<v>>]

SeqsUpTo(S, n) == UNION {[1..k -> S] : k \in 0..n}

\* Itertools::unique: the first occurrence of every element, in order
RECURSIVE unique(_)
unique(seq) ==
    IF seq = << >>
    THEN << >>
    ELSE LET r == unique(SubSeq(seq, 1, Len(seq) - 1))
         IN  IF \E i \in DOMAIN r : r[i] = seq[Len(seq)]
             THEN r
             ELSE Append(r, seq[Len(seq)])

\* Tagable::get_tags for EntryHeader
get_tags(header) ==
    CASE header.kind = "Array" ->
            IF \E i \in DOMAIN header.items : header.items[i].type # "String"
            THEN [res |-> <<"TagTypeError">>, tags |-> << >>]
            ELSE IF \E i \in DOMAIN header.items : ~is_tag(header.items[i].s)
            THEN [res |-> <<"NotATag">>, tags |-> << >>]
            ELSE [res |-> Ok,
                  tags |-> [i \in DOMAIN header.items |-> header.items[i].s]]
      [] header.kind = "None" -> [res |-> Ok, tags |-> << >>]
      [] OTHER -> [res |-> <<"TagTypeError">>, tags |-> << >>]

\* Tagable::set_tags
set_tags(header, ts) ==
    IF \E i \in DOMAIN ts : ~is_tag(ts[i])
    THEN [res |-> <<"NotATag">>, header |-> header]
    ELSE LET a == unique(ts)
         IN  [res |-> Ok, header |-> Array([i \in DOMAIN a |-> String(a[i])])]

\* Tagable::add_tag: the result of the inner set_tags is mapped away
add_tag(header, t) ==
    IF ~is_tag(t)
    THEN [res |-> <<"NotATag">>, header |-> header]
    ELSE LET g == get_tags(header)
         IN  IF g.res # Ok
             THEN [res |-> g.res, header |-> header]
             ELSE [res |-> Ok,
                   header |-> set_tags(header, unique(Append(g.tags, t))).header]

\* Tagable::remove_tag
remove_tag(header, t) ==
    IF ~is_tag(t)
    THEN [res |-> <<"NotATag">>, header |-> header]
    ELSE LET g == get_tags(header)
         IN  IF g.res # Ok
             THEN [res |-> g.res, header |-> header]
             ELSE [res |-> Ok,
                   header |-> set_tags(header,
                                       SelectSeq(g.tags, LAMBDA tag : tag # t)).header]

\* Option::iter on what read returned: no value for None, and for Some the one
\* value it holds, whatever its type
Option_iter(header) ==
    CASE header.kind = "None"  -> << >>
      [] header.kind = "Array" -> <<[type |-> "Array", s |-> ""]>>
      [] OTHER                 -> header.items

\* Tagable::has_tag: all and any run over the Option that read returned
has_tag(header, t) ==
    LET tags == Option_iter(header)
    IN  IF \E i \in DOMAIN tags : tags[i].type # "String"
        THEN [res |-> <<"TagTypeError">>, out |-> ""]
        ELSE [res |-> Ok,
              out |-> IF \E i \in DOMAIN tags : tags[i].s = t THEN "true" ELSE "false"]

\* Tagable::has_tags: the first error, or whether every tag is there
RECURSIVE has_tags(_, _)
has_tags(header, ts) ==
    IF ts = << >>
    THEN [res |-> Ok, out |-> "true"]
    ELSE LET check == has_tag(header, Head(ts))
             rest  == has_tags(header, Tail(ts))
         IN  IF check.res # Ok
             THEN check
             ELSE IF rest.res # Ok
             THEN rest
             ELSE [res |-> Ok,
                   out |-> IF check.out = "true" /\ rest.out = "true"
                           THEN "true" ELSE "false"]

\* the headers that callers tag: without imag.tags, with an array of at most
\* MaxTags values, or with one string in its place
TagHeaders ==
    {Absent, Scalar(String("foo"))} \cup {Array(a) : a \in SeqsUpTo(Values, MaxTags)}

(***************************************************************************)
(* State.  entries: the cache; fs: backing storage; handles: the bag of    *)
(* live FileLockEntry handles; pc: where each thread is inside an         *)
(* operation that takes its locks step by step (get's existence test and   *)
(* retrieve, or the stages of the lock model), and idle otherwise.         *)
(* aspects: the hooks registered in each aspect group; poisoned: a thread  *)
(* has panicked with the cache lock in its hands; alive: the store is not  *)
(* dropped yet; imag_tags: the value at imag.tags of the header that the   *)
(* Tagable calls work on.                                                  *)
(* last is the observer's record of the step just taken: the operation     *)
(* that completed, what it returned and the aspect groups it is known to   *)
(* have run, for the operations named in watch                             *)
(* (which never changes), and Quiet after a step of any other operation.   *)
(***************************************************************************)
Idle == [stage |-> "idle", id |-> "", op |-> "", to |-> ""]

Store == [entries |-> entries, fs |-> fs, handles |-> handles]

LiveHandles == BagToSet(handles)

\* the operation did not return: an assertion failed while it held the cache
\* lock, which is poisoned from then on
Panicked(res) ==
    res # << >> /\ res[Len(res)] \in {"panic: Tried to update a non borrowed entry.",
                                      MoveAssertion}

\* no hook objects and the cache lock is sound
OkHooks == [pre |-> "ok", post |-> "ok", upre |-> "ok", upost |-> "ok", lock |-> "ok"]

\* a cache lock that every operation finds sound
Recovered(hk) == hk

\* what an operation is handed besides its arguments: the verdicts of the
\* hooks it runs and the state in which it finds the cache lock
Locked(hk) == [hk EXCEPT !.lock = IF poisoned THEN "poisoned" ELSE "ok"]

Returned(op, id, to, r) ==
    [op |-> op, id |-> id, to |-> to, res |-> r.res, out |-> r.out, ran |-> r.ran,
     calls |-> r.calls]

Quiet == [op |-> "", id |-> "", to |-> "", res |-> Ok, out |-> "", ran |-> << >>,
          calls |-> << >>]

Commit(op, id, to, r) ==
    /\ entries' = r.entries
    /\ fs' = r.fs
    /\ handles' = r.handles
    /\ last' = IF op \in watch THEN Returned(op, id, to, r) ELSE Quiet
    /\ watch' = watch
    /\ aspects' = aspects
    /\ alive /\ alive' = alive
    /\ imag_tags' = imag_tags
    /\ poisoned' = (poisoned \/ Panicked(r.res))

\* the aspect groups of the store that entry operations execute
Groups == {"pre_create_aspects", "post_create_aspects",
           "pre_retrieve_aspects", "post_retrieve_aspects",
           "pre_update_aspects", "post_update_aspects",
           "pre_delete_aspects", "post_delete_aspects",
           "pre_move_aspects", "post_move_aspects"}

\* the group that the drop of the store executes
UnloadGroup == "store_unload_aspects"

\* the groups that Store::new builds from the configuration
AllGroups == Groups \cup {UnloadGroup}

\* the names of the aspects of a group, in the order of the configuration
AspectNames == <<"test", "debug">>

\* the positions a hook is registered at: the variants of HookPosition that
\* register_hook matches on
HookPosition == {"StoreUnload", "PreCreate", "PostCreate", "PreRetrieve", "PostRetrieve",
                 "PreUpdate", "PostUpdate", "PreDelete", "PostDelete"}

\* Store::register_hook: the aspect group of a position
position_aspects(position) ==
    CASE position = "StoreUnload"  -> "store_unload_aspects"
      [] position = "PreCreate"    -> "pre_create_aspects"
      [] position = "PostCreate"   -> "post_create_aspects"
      [] position = "PreRetrieve"  -> "pre_retrieve_aspects"
      [] position = "PostRetrieve" -> "post_retrieve_aspects"
      [] position = "PreUpdate"    -> "pre_update_aspects"
      [] position = "PostUpdate"   -> "post_update_aspects"
      [] position = "PreDelete"    -> "pre_delete_aspects"
      [] position = "PostDelete"   -> "post_delete_aspects"

\* Store::register_hook on the aspect groups cfg: the hook h goes to the end
\* of the first aspect of the position's group that bears the name
register_hook(cfg, position, aspect_name, h) ==
    LET g     == position_aspects(position)
        found == {a \in 1..Len(cfg[g]) : AspectNames[a] = aspect_name}
    IN  IF found = {}
        THEN [aspects |-> cfg, res |-> <<"HookRegisterError", "AspectNameNotFoundError">>]
        ELSE [aspects |-> [cfg EXCEPT ![g][Min(found)] = Append(@, h)], res |-> Ok]

\* a hook that succeeds or vetoes, and one that may also fail without vetoing
Vetoing == {"ok", "abort"}

Failing == AllOutcomes

\* every group configured with the aspect "test", as the store of the tests
\* is, without hooks
NoHooks == [g \in AllGroups |-> << << >> >>]

\* the groups of the positions that register_hook knows
Registrable == {position_aspects(position) : position \in HookPosition}

\* the store of the tests after a hook has been registered at every position
\* that entry operations fire and register_hook knows
PlainAspects ==
    [g \in AllGroups |-> IF g \in Registrable \ {UnloadGroup} THEN << <<Vetoing>> >>
                                                              ELSE << << >> >>]

\* the group g configured with two aspects, the first holding two hooks
Detailed(g) == [PlainAspects EXCEPT ![g] = << <<Failing, Failing>>, <<Failing>> >>]

\* the configurations a store is constructed with
Configs == {PlainAspects} \cup
           {Detailed(g) : g \in Groups \ {"pre_move_aspects", "post_move_aspects"}}

\* Store::new, on a store directory that may hold entries already
Watching(ops) ==
    /\ entries = {}
    /\ fs \in [FsPaths -> InitFiles]
    /\ handles = EmptyBag
    /\ pc = [t \in Threads |-> Idle]
    /\ last = Quiet
    /\ watch = ops
    /\ poisoned = FALSE
    /\ alive = TRUE
    /\ imag_tags = Absent
    /\ aspects = PlainAspects

\* Store::new with one group of create, retrieve, update or delete holding
\* several aspects and hooks, on an empty store directory
WatchingHooks(ops) ==
    /\ entries = {}
    /\ fs = [p \in FsPaths |-> NoFile]
    /\ handles = EmptyBag
    /\ pc = [t \in Threads |-> Idle]
    /\ last = Quiet
    /\ watch = ops \cup {"hooks"}
    /\ poisoned = FALSE
    /\ alive = TRUE
    /\ imag_tags = Absent
    /\ aspects \in Configs \ {PlainAspects}

\* Store::new as the tests configure it, on a store directory in which entries
\* without a version may lie; the observer records the hooks called
WatchingUnversioned(ops) ==
    /\ entries = {}
    /\ fs \in [FsPaths -> {NoFile, File(Unversioned)}]
    /\ handles = EmptyBag
    /\ pc = [t \in Threads |-> Idle]
    /\ last = Quiet
    /\ watch = ops \cup {"hooks"}
    /\ poisoned = FALSE
    /\ alive = TRUE
    /\ imag_tags = Absent
    /\ aspects = PlainAspects

\* Store::new: no hook is registered yet.  The configuration names the aspect
\* "test" for every group, or leaves the post-delete group without aspects
\* and names "test" and "debug" for the pre-create group
Constructed(ops) ==
    /\ entries = {}
    /\ fs = [p \in FsPaths |-> NoFile]
    /\ handles = EmptyBag
    /\ pc = [t \in Threads |-> Idle]
    /\ last = Quiet
    /\ watch = ops
    /\ poisoned = FALSE
    /\ alive = TRUE
    /\ imag_tags = Absent
    /\ aspects \in {NoHooks,
                    [NoHooks EXCEPT !["post_delete_aspects"] = << >>,
                                    !["pre_create_aspects"] = << << >>, << >> >>]}

\* an entry in the hands of a caller, or a text to be parsed, which the file of
\* "a" holds
EntryOrText ==
    /\ entries = {}
    /\ pc = [t \in Threads |-> Idle]
    /\ last = Quiet
    /\ watch = {"to_str", "from_str"}
    /\ aspects = NoHooks
    /\ poisoned = FALSE
    /\ alive = TRUE
    /\ imag_tags = Absent
    /\ \/ /\ handles \in {SetToBag({e}) : e \in EntryInputs}
          /\ fs = [p \in FsPaths |-> NoFile]
       \/ /\ handles = EmptyBag
          /\ fs \in {[[p \in FsPaths |-> NoFile]
                        EXCEPT ![into_pathbuf([base |-> Root, path |-> "a"])] = File(t)] :
                      t \in Texts}

Init == Watching({})

\* the verdicts an operation takes, one per pipeline it may run: pre and post
\* of the operation itself, upre and upost of the update a drop performs.  A
\* pipeline that is not reached has no verdict ("ok" stands for it).
Reached(names, hk) ==
    LET dropped == {"pre", "post"} \subseteq names => hk.post = "abort"
    IN  {n \in names :
            \/ n = "pre"
            \/ n = "post" /\ hk.pre = "ok"
            \/ n = "upre" /\ dropped
            \/ n = "upost" /\ dropped /\ hk.upre = "ok"}

Reachable(names, hk) ==
    \A n \in {"pre", "post", "upre", "upost"} \ Reached(names, hk) : hk[n] = "ok"

Hooks(names) ==
    {hk \in [pre : HookVerdicts, post : HookVerdicts,
             upre : HookVerdicts, upost : HookVerdicts, lock : {"ok"}] : Reachable(names, hk)}

CreateHooks == Hooks({"pre", "post", "upre", "upost"})

UpdateHooks == Hooks({"upre", "upost"})

DeleteHooks == Hooks({"pre", "post"})

SaveToHooks == Hooks({"post"})

SaveAsHooks == Hooks({"post", "upre", "upost"})

\* the group behind each pipeline of an operation, "" where it has none
Pipelines == <<"pre", "post", "upre", "upost">>

NoGroups == [pre |-> "", post |-> "", upre |-> "", upost |-> ""]

UpdateGroups ==
    [NoGroups EXCEPT !.upre = "pre_update_aspects", !.upost = "post_update_aspects"]

CreateGroups ==
    [UpdateGroups EXCEPT !.pre = "pre_create_aspects", !.post = "post_create_aspects"]

RetrieveGroups ==
    [UpdateGroups EXCEPT !.pre = "pre_retrieve_aspects", !.post = "post_retrieve_aspects"]

DeleteGroups ==
    [NoGroups EXCEPT !.pre = "pre_delete_aspects", !.post = "post_delete_aspects"]

SaveToGroups == [NoGroups EXCEPT !.post = "post_move_aspects"]

SaveAsGroups == [UpdateGroups EXCEPT !.post = "post_move_aspects"]

UnloadGroups == [NoGroups EXCEPT !.pre = "store_unload_aspects"]

\* move_by_id executes the pre-move group before and after the move
MoveGroups == [NoGroups EXCEPT !.pre = "pre_move_aspects", !.post = "pre_move_aspects"]

\* what the hooks of one aspect, and of one group, may return in one execution
AspectOutcomes(aspect) ==
    {o \in [1..Len(aspect) -> AllOutcomes] : \A h \in 1..Len(aspect) : o[h] \in aspect[h]}

GroupOutcomes(cfg, group) ==
    IF group = ""
    THEN {<< >>}
    ELSE LET g == cfg[group]
         IN  {o \in [1..Len(g) -> UNION {AspectOutcomes(g[a]) : a \in 1..Len(g)}] :
                 \A a \in 1..Len(g) : o[a] \in AspectOutcomes(g[a])}

\* the verdicts the pipelines of an operation reach on the outcomes outs
Verdicts(gs, outs) ==
    [pre   |-> execute_hooks(gs.pre, outs.pre).res,
     post  |-> execute_hooks(gs.post, outs.post).res,
     upre  |-> execute_hooks(gs.upre, outs.upre).res,
     upost |-> execute_hooks(gs.upost, outs.upost).res,
     lock  |-> "ok"]

\* a hook that is not called returns nothing ("ok" stands for it)
Settled(names, gs, run) ==
    \A n \in {"pre", "post", "upre", "upost"} :
       LET o      == run.outs[n]
           called == IF n \in Reached(names, run.hk)
                     THEN LET c == execute_hooks(gs[n], o).calls
                          IN  {<<c[i][1], c[i][2]>> : i \in 1..Len(c)}
                     ELSE {}
       IN  \A a \in 1..Len(o) : \A h \in 1..Len(o[a]) :
              <<a, h>> \notin called => o[a][h] = "ok"

\* the outcomes an operation with the groups gs may meet in a store configured
\* with cfg, each with the verdicts they lead to
HookOutcomes(cfg, gs) ==
    LET all == {[outs |-> o, hk |-> Verdicts(gs, o)] :
                   o \in [pre : GroupOutcomes(cfg, gs.pre), post : GroupOutcomes(cfg, gs.post),
                          upre : GroupOutcomes(cfg, gs.upre),
                          upost : GroupOutcomes(cfg, gs.upost)]}
        names == {n \in {"pre", "post", "upre", "upost"} : gs[n] # ""}
    IN  {run \in all : Reachable(names, run.hk) /\ Settled(names, gs, run)}

\* HookOutcomes, worked out once for every configuration and operation
OutcomeTable ==
    {<<cfg, gs, HookOutcomes(cfg, gs)>> :
        cfg \in Configs,
        gs \in {UpdateGroups, CreateGroups, RetrieveGroups, DeleteGroups,
                SaveToGroups, SaveAsGroups, MoveGroups}}

Runs(gs) ==
    LET known == {t \in OutcomeTable : t[2] = gs /\ t[1] = aspects}
    IN  IF known = {} THEN HookOutcomes(aspects, gs) ELSE (CHOOSE t \in known : TRUE)[3]

\* the hooks called by the executions ran, which are those of the pipelines
\* from the k-th on, in order
RECURSIVE Calls(_, _, _, _)
Calls(ran, gs, outs, k) ==
    IF ran = << >> \/ k > Len(Pipelines)
    THEN << >>
    ELSE LET n == Pipelines[k]
         IN  IF gs[n] = Head(ran)[1]
             THEN << <<Head(ran)[1], Head(ran)[2], execute_hooks(gs[n], outs[n]).calls>> >>
                  \o Calls(Tail(ran), gs, outs, k + 1)
             ELSE Calls(ran, gs, outs, k + 1)

\* the result r of an operation together with the hooks it called, for an
\* observer of hooks
Called(r, gs, outs) ==
    IF "hooks" \in watch THEN [r EXCEPT !.calls = Calls(r.ran, gs, outs, 1)] ELSE r

Create(id) ==
    /\ \E run \in Runs(CreateGroups) :
          Commit("create", id.path, "",
                 Called(create(Store, id, Locked(run.hk)), CreateGroups, run.outs))
    /\ UNCHANGED pc

Retrieve(id) ==
    /\ \E run \in Runs(RetrieveGroups) :
          Commit("retrieve", id.path, "",
                 Called(retrieve(Store, id, Locked(run.hk)),
                        RetrieveGroups, run.outs))
    /\ UNCHANGED pc

Get(id) ==
    /\ \E run \in Runs(RetrieveGroups) :
          Commit("get", id.path, "",
                 Called(get(Store, id, Locked(run.hk)), RetrieveGroups, run.outs))
    /\ UNCHANGED pc

\* Store::get step by step, first half of the existence test: id.exists()
GetExists(t, id) ==
    /\ alive
    /\ pc[t].stage = "idle"
    /\ pc' = [pc EXCEPT ![t] =
                [stage |-> IF exists(fs, with_base(id, Root)) THEN "retrieve" ELSE "cache",
                 id |-> id.path, op |-> "get", to |-> ""]]
    /\ UNCHANGED <<entries, fs, handles, last, watch, aspects, poisoned, alive, imag_tags>>

\* Store::get, second half of the existence test: the cache lookup under the
\* read lock; Ok(None) when both say no
GetContains(t) ==
    /\ pc[t].stage = "cache"
    /\ IF poisoned
       THEN /\ pc' = [pc EXCEPT ![t] = Idle]
            /\ Commit("get", pc[t].id, "", Fail(Store, <<"GetCallError", "LockPoisoned">>))
       ELSE IF contains_key(entries, [base |-> Root, path |-> pc[t].id])
       THEN /\ pc' = [pc EXCEPT ![t].stage = "retrieve"]
            /\ UNCHANGED <<entries, fs, handles, last, watch, aspects, poisoned, alive, imag_tags>>
       ELSE /\ pc' = [pc EXCEPT ![t] = Idle]
            /\ Commit("get", pc[t].id, "", Done(entries, fs, handles, Ok, "None", NoEntry))

\* Store::get, the delegation to retrieve
GetRetrieve(t) ==
    /\ pc[t].stage = "retrieve"
    /\ \E run \in Runs(RetrieveGroups) :
          LET r == retrieve(Store, [base |-> Root, path |-> pc[t].id],
                            Locked(run.hk))
          IN  Commit("get", pc[t].id, "",
                     Called([r EXCEPT !.res = IF r.res = Ok THEN Ok
                                                ELSE <<"GetCallError">> \o r.res],
                            RetrieveGroups, run.outs))
    /\ pc' = [pc EXCEPT ![t] = Idle]

\* the caller writes header and content through get_header_mut / get_content_mut
Modify(fle, ed) ==
    /\ fle \in LiveHandles
    /\ LET new == [fle EXCEPT !.header = ed.header, !.content = ed.content]
       IN  /\ new # fle
           /\ Commit("modify", fle.location.path, "",
                     Done(entries, fs, add_handle(remove_handle(handles, fle), new),
                          Ok, "", NoEntry))
    /\ UNCHANGED pc

Update(fle) ==
    /\ fle \in LiveHandles
    /\ \E run \in Runs(UpdateGroups) :
          Commit("update", fle.location.path, "",
                 Called(update(Store, fle, Locked(run.hk)), UpdateGroups, run.outs))
    /\ UNCHANGED pc

Drop(fle) ==
    /\ fle \in LiveHandles
    /\ \E run \in Runs(UpdateGroups) :
          Commit("drop", fle.location.path, "",
                 Called(drop(Store, fle, Locked(run.hk)), UpdateGroups, run.outs))
    /\ UNCHANGED pc

Delete(id) ==
    /\ \E run \in Runs(DeleteGroups) :
          Commit("delete", id.path, "",
                 Called(delete(Store, id, Locked(run.hk)), DeleteGroups, run.outs))
    /\ UNCHANGED pc

RetrieveCopy(id) ==
    /\ Commit("retrieve_copy", id.path, "", retrieve_copy(Store, id, Locked(OkHooks)))
    /\ UNCHANGED pc

SaveTo(fle, new_id) ==
    /\ fle \in LiveHandles
    /\ \E run \in Runs(SaveToGroups) :
          Commit("save_to", fle.location.path, new_id.path,
                 Called(save_to(Store, fle, new_id, Locked(run.hk)),
                        SaveToGroups, run.outs))
    /\ UNCHANGED pc

SaveAs(fle, new_id) ==
    /\ fle \in LiveHandles
    /\ \E run \in Runs(SaveAsGroups) :
          Commit("save_as", fle.location.path, new_id.path,
                 Called(save_as(Store, fle, new_id, Locked(run.hk)),
                        SaveAsGroups, run.outs))
    /\ UNCHANGED pc

MoveById(old_id, new_id) ==
    /\ \E run \in Runs(MoveGroups) :
          Commit("move_by_id", old_id.path, new_id.path,
                 Called(move_by_id(Store, old_id, new_id, Locked(run.hk)),
                        MoveGroups, run.outs))
    /\ UNCHANGED pc

\* how many hooks register_hook may add to a store
MaxHooks == 2

RECURSIVE HooksIn(_, _)
HooksIn(group, a) ==
    IF a > Len(group) THEN 0 ELSE Len(group[a]) + HooksIn(group, a + 1)

RECURSIVE HooksOf(_, _)
HooksOf(cfg, gs) ==
    IF gs = {} THEN 0
    ELSE LET g == CHOOSE x \in gs : TRUE
         IN  HooksIn(cfg[g], 1) + HooksOf(cfg, gs \ {g})

\* a post-update hook panics in an update of fle: _update has written the entry
\* and still holds the cache lock, which is poisoned; the thread unwinds and
\* drops its handle, whose write-back finds the lock poisoned
Panic(fle) ==
    /\ alive /\ ~poisoned
    /\ fle \in LiveHandles
    /\ HooksIn(aspects["post_update_aspects"], 1) > 0
    /\ LET u == _update(Store, fle, FALSE, OkHooks)
       IN  /\ u.res = Ok
           /\ entries' = u.entries
           /\ fs' = u.fs
           /\ handles' = remove_handle(handles, fle)
    /\ poisoned' = TRUE
    /\ last' = Quiet
    /\ UNCHANGED <<pc, watch, aspects, alive, imag_tags>>

\* Drop for Store: the last owner lets go of the store, which no handle and
\* no running call borrows; the unload hooks run on the store as it is
Unload ==
    /\ alive
    /\ handles = EmptyBag
    /\ \A t \in Threads : pc[t] = Idle
    /\ \E run \in Runs(UnloadGroups) :
          LET r == Called(Store_drop(Store, Locked(run.hk)), UnloadGroups, run.outs)
          IN  /\ entries' = r.entries
              /\ fs' = r.fs
              /\ handles' = r.handles
              /\ last' = IF "unload" \in watch THEN Returned("unload", ".", "", r) ELSE Quiet
    /\ alive' = FALSE
    /\ imag_tags' = imag_tags
    /\ UNCHANGED <<pc, watch, aspects, poisoned>>

\* the fields of the dropped store are dropped: the cache goes, and with it
\* the files it holds open
Teardown ==
    /\ ~alive
    /\ entries # {}
    /\ entries' = {}
    /\ last' = Quiet
    /\ UNCHANGED <<fs, handles, pc, watch, aspects, poisoned, alive, imag_tags>>

\* Entry::to_str of the entry fle, the text kept in the file of its id
ToStr(fle) ==
    /\ fle \in LiveHandles
    /\ fs' = write_file_content(fs, into_pathbuf(fle.location), to_str(fle))
    /\ last' = [Quiet EXCEPT !.op = "to_str", !.id = fle.location.path]
    /\ UNCHANGED <<entries, handles, pc, watch, aspects, poisoned, alive, imag_tags>>

\* Entry::from_str of the text in the file of id; the entry it builds takes
\* the place of the one the caller had
FromStr(id) ==
    /\ fs[into_pathbuf(id)].exists
    /\ LET r == from_str(id, fs[into_pathbuf(id)].text)
       IN  /\ handles' = IF r.res = Ok THEN SetToBag({r.entry}) ELSE EmptyBag
           /\ last' = [Quiet EXCEPT !.op = "from_str", !.id = id.path, !.res = r.res]
    /\ UNCHANGED <<entries, fs, pc, watch, aspects, poisoned, alive, imag_tags>>

\* the aspect names a caller passes: the configured ones and one that is not
CallerNames == {"test", "debug", "vcs"}

\* Store::register_hook takes the store by &mut, which no caller has while a
\* handle borrows the store
RegisterHook(position, aspect_name, h) ==
    /\ alive
    /\ handles = EmptyBag
    /\ HooksOf(aspects, AllGroups) < MaxHooks
    /\ LET r == register_hook(aspects, position, aspect_name, h)
       IN  /\ aspects' = r.aspects
           /\ last' = IF "register_hook" \in watch
                      THEN [Quiet EXCEPT !.op = "register_hook", !.id = position,
                                         !.to = aspect_name, !.res = r.res]
                      ELSE Quiet
    /\ UNCHANGED <<entries, fs, handles, pc, watch, poisoned, alive, imag_tags>>

\* an entry header to tag, of an entry that is not in any store
Tagged ==
    /\ entries = {}
    /\ fs = [p \in FsPaths |-> NoFile]
    /\ handles = EmptyBag
    /\ pc = [t \in Threads |-> Idle]
    /\ last = Quiet
    /\ watch = {"get_tags", "set_tags", "add_tag", "remove_tag", "has_tag", "has_tags"}
    /\ poisoned = FALSE
    /\ alive = TRUE
    /\ aspects = NoHooks
    /\ imag_tags \in TagHeaders

\* what the observer records of a call on the header
TagCall(op, arg, r, out) ==
    /\ last' = [Quiet EXCEPT !.op = op, !.id = arg, !.res = r.res, !.out = out]
    /\ UNCHANGED <<entries, fs, handles, pc, watch, aspects, poisoned, alive>>

GetTags ==
    /\ imag_tags' = imag_tags
    /\ TagCall("get_tags", "", get_tags(imag_tags),
               IF get_tags(imag_tags).res = Ok THEN "Vec" ELSE "")

SetTags(ts) ==
    /\ imag_tags' = set_tags(imag_tags, ts).header
    /\ TagCall("set_tags", "", set_tags(imag_tags, ts), "")

AddTag(t) ==
    /\ imag_tags' = add_tag(imag_tags, t).header
    /\ TagCall("add_tag", t, add_tag(imag_tags, t), "")

RemoveTag(t) ==
    /\ imag_tags' = remove_tag(imag_tags, t).header
    /\ TagCall("remove_tag", t, remove_tag(imag_tags, t), "")

HasTag(t) ==
    /\ imag_tags' = imag_tags
    /\ TagCall("has_tag", t, has_tag(imag_tags, t), has_tag(imag_tags, t).out)

HasTags(ts) ==
    /\ imag_tags' = imag_tags
    /\ TagCall("has_tags", "", has_tags(imag_tags, ts), has_tags(imag_tags, ts).out)

(***************************************************************************)
(* The locks of the store, one acquisition at a time.  A thread inside an  *)
(* operation is at a stage: about to lock the aspect group that runs       *)
(* before the cache is touched ("pre"), running its hooks ("in_pre"),      *)
(* about to lock the cache for reading ("read", for get's lookup) or for   *)
(* writing ("cache"), about to lock the group that runs after the critical *)
(* section ("post", or "post_locked" when the write guard is still alive), *)
(* running its hooks ("in_post", "in_post_locked").  The critical section  *)
(* itself is one step, from the grant of the cache lock to the point where *)
(* the guard goes or the thread has to wait for the next lock.  The guards *)
(* a thread holds follow from its stage.                                   *)
(***************************************************************************)
\* the threads that call into the store at the same time
Lockers == 1..(NumThreads + 1)

\* the entry the threads contend for; the other ids are where it is saved
\* and moved to
LockedIds == {"a"}

\* the aspect group an operation executes before it locks the cache
pre_aspects(op) ==
    CASE op = "create"              -> "pre_create_aspects"
      [] op \in {"retrieve", "get"} -> "pre_retrieve_aspects"
      [] op \in {"update", "drop"}  -> "pre_update_aspects"
      [] op = "delete"              -> "pre_delete_aspects"
      [] op = "move_by_id"          -> "pre_move_aspects"
      [] OTHER                      -> ""

\* the aspect group an operation executes after its critical section
post_aspects(op) ==
    CASE op = "create"                -> "post_create_aspects"
      [] op \in {"retrieve", "get"}   -> "post_retrieve_aspects"
      [] op \in {"update", "drop"}    -> "post_update_aspects"
      [] op = "delete"                -> "post_delete_aspects"
      [] op \in {"save_to", "save_as"} -> "post_move_aspects"
      [] op = "move_by_id"            -> "pre_move_aspects"
      [] OTHER                        -> ""

\* the operations whose write guard lives to the end of the function, past
\* the hooks that run after the critical section
post_under_lock(op) == op \in {"update", "drop", "save_to", "save_as"}

\* the guards of a thread in get that keeps the read guard of its cache
\* lookup while it calls retrieve
HeldLocks_get_guard(p) ==
    (IF p.op = "get" /\ p.stage \notin {"idle", "read"} THEN {"entries.read"} ELSE {})
    \cup
    (CASE p.stage = "in_pre"         -> {pre_aspects(p.op)}
       [] p.stage = "post_locked"    -> {"entries.write"}
       [] p.stage = "in_post_locked" -> {"entries.write", post_aspects(p.op)}
       [] p.stage = "in_post"        -> {post_aspects(p.op)}
       [] OTHER                      -> {})

\* the guards a thread holds at its stage
HeldLocks(p) ==
    CASE p.stage = "in_pre"         -> {pre_aspects(p.op)}
      [] p.stage = "post_locked"    -> {"entries.write"}
      [] p.stage = "in_post_locked" -> {"entries.write", post_aspects(p.op)}
      [] p.stage = "in_post"        -> {post_aspects(p.op)}
      [] OTHER                      -> {}

\* the lock a thread is about to take
Wanted(p) ==
    CASE p.stage = "pre"                     -> pre_aspects(p.op)
      [] p.stage = "read"                    -> "entries.read"
      [] p.stage = "cache"                   -> "entries.write"
      [] p.stage \in {"post", "post_locked"} -> post_aspects(p.op)
      [] OTHER                               -> ""

AllHeld == UNION {HeldLocks(pc[u]) : u \in Lockers}

\* Mutex::lock and RwLock::read / write return: a mutex and the write lock
\* are exclusive, readers share
Grantable(lock) ==
    CASE lock = "entries.write" -> AllHeld \cap {"entries.write", "entries.read"} = {}
      [] lock = "entries.read"  -> "entries.write" \notin AllHeld
      [] OTHER                  -> lock \notin AllHeld

\* the stage at which an operation starts
Entered(op, id) ==
    IF op = "get"
    THEN IF exists(fs, [base |-> Root, path |-> id]) THEN "pre" ELSE "read"
    ELSE IF pre_aspects(op) # "" THEN "pre" ELSE "cache"

\* a hook of the group can refuse
CanAbort(g) ==
    \E a \in DOMAIN aspects[g] : \E h \in DOMAIN aspects[g][a] : "abort" \in aspects[g][a][h]

\* the operations that are given a handle, and those that make one
TakesHandle(op) == op \in {"update", "drop", "save_to", "save_as"}

Owns(p, id) ==
    /\ p.id = id
    /\ \/ TakesHandle(p.op)
       \/ p.op \in {"create", "retrieve", "get"} /\ p.stage \in {"post", "in_post"}

HandleAt(id) == CHOOSE fle \in LiveHandles : fle.location.path = id

\* what the critical section of the operation does to the store
Effect(p) ==
    LET id  == [base |-> Root, path |-> p.id]
        to  == [base |-> Root, path |-> p.to]
        hk  == Locked(OkHooks)
    IN  CASE p.op = "create"        -> create(Store, id, hk)
          [] p.op \in {"retrieve", "get"} -> retrieve(Store, id, hk)
          [] p.op = "update"        -> update(Store, HandleAt(p.id), hk)
          [] p.op = "drop"          -> drop(Store, HandleAt(p.id), hk)
          [] p.op = "delete"        -> delete(Store, id, hk)
          [] p.op = "retrieve_copy" -> retrieve_copy(Store, id, hk)
          [] p.op = "save_to"       -> save_to(Store, HandleAt(p.id), to, hk)
          [] p.op = "save_as"       ->
                save_to_other_location(Store, HandleAt(p.id), to, TRUE, hk)
          [] p.op = "move_by_id"    -> move_by_id(Store, id, to, hk)

\* the call returns; the handle that the call made or consumed, if there is
\* one, is released next
Return(t, dropping) ==
    pc' = [pc EXCEPT ![t] = IF dropping
                            THEN [stage |-> "pre", id |-> pc[t].id, op |-> "drop", to |-> ""]
                            ELSE Idle]

\* a thread calls an operation
Call(t, op, id, to) ==
    /\ alive
    /\ pc[t] = Idle
    /\ op \in {"save_to", "save_as", "move_by_id"} <=> to # ""
    /\ \A u \in Lockers : ~Owns(pc[u], id)
    /\ TakesHandle(op) => \E fle \in LiveHandles : fle.location.path = id
    /\ pc' = [pc EXCEPT ![t] = [stage |-> Entered(op, id), id |-> id, op |-> op, to |-> to]]
    /\ UNCHANGED <<entries, fs, handles, last, watch, aspects, poisoned, alive, imag_tags>>

\* Mutex::lock returns the guard of an aspect group
Lock(t) ==
    /\ pc[t].stage \in {"pre", "post", "post_locked"}
    /\ Grantable(Wanted(pc[t]))
    /\ pc' = [pc EXCEPT ![t].stage = "in_" \o @]
    /\ UNCHANGED <<entries, fs, handles, last, watch, aspects, poisoned, alive, imag_tags>>

\* the hooks that run before the critical section are done and their guard is
\* let go; after a refusal the call returns
PreHooks(t, verdict) ==
    /\ pc[t].stage = "in_pre"
    /\ verdict = "abort" => CanAbort(pre_aspects(pc[t].op))
    /\ IF verdict = "abort"
       THEN /\ Return(t, FALSE)
            /\ handles' = IF pc[t].op = "drop"
                          THEN remove_handle(handles, HandleAt(pc[t].id)) ELSE handles
       ELSE /\ pc' = [pc EXCEPT ![t].stage = "cache"]
            /\ handles' = handles
    /\ UNCHANGED <<entries, fs, last, watch, aspects, poisoned, alive, imag_tags>>

\* RwLock::read returns: get's cache lookup under the read guard, which goes
\* at the end of the statement
Lookup(t) ==
    /\ pc[t].stage = "read"
    /\ Grantable("entries.read")
    /\ pc' = [pc EXCEPT ![t] = IF contains_key(entries, [base |-> Root, path |-> pc[t].id])
                               THEN [@ EXCEPT !.stage = "pre"] ELSE Idle]
    /\ UNCHANGED <<entries, fs, handles, last, watch, aspects, poisoned, alive, imag_tags>>

\* RwLock::write returns: the critical section under the write guard; the
\* guard goes with an early return and at the end of its block, and stays
\* where the function goes on to the hooks with it
Critical(t) ==
    /\ pc[t].stage = "cache"
    /\ Grantable("entries.write")
    /\ LET r == Effect(pc[t])
       IN  /\ entries' = r.entries
           /\ fs' = r.fs
           /\ handles' = r.handles
           /\ IF r.res # Ok \/ post_aspects(pc[t].op) = ""
              THEN Return(t, FALSE)
              ELSE pc' = [pc EXCEPT ![t].stage =
                             IF post_under_lock(pc[t].op) THEN "post_locked" ELSE "post"]
    /\ UNCHANGED <<last, watch, aspects, poisoned, alive, imag_tags>>

\* the hooks that run after the critical section are done and every guard is
\* let go; a handle that is not returned, and the handle save_as was given,
\* is dropped
PostHooks(t, verdict) ==
    /\ pc[t].stage \in {"in_post", "in_post_locked"}
    /\ verdict = "abort" => CanAbort(post_aspects(pc[t].op))
    /\ Return(t, \/ pc[t].op = "save_as"
                 \/ verdict = "abort" /\ pc[t].op \in {"create", "retrieve", "get"})
    /\ UNCHANGED <<entries, fs, handles, last, watch, aspects, poisoned, alive, imag_tags>>

\* what a thread does once it is inside an operation
Step(t) ==
    \/ Lock(t)
    \/ \E verdict \in HookVerdicts : PreHooks(t, verdict)
    \/ Lookup(t)
    \/ Critical(t)
    \/ \E verdict \in HookVerdicts : PostHooks(t, verdict)

\* Store::new on an empty store directory, and threads that are not inside
\* the store yet
Unlocked ==
    /\ entries = {}
    /\ fs = [p \in FsPaths |-> NoFile]
    /\ handles = EmptyBag
    /\ pc = [t \in Lockers |-> Idle]
    /\ last = Quiet
    /\ watch = {}
    /\ poisoned = FALSE
    /\ alive = TRUE
    /\ imag_tags = Absent
    /\ aspects = PlainAspects

\* the operations that take the cache lock once
Atomic ==
    \/ \E id \in StoreIds : Create(id)
    \/ \E id \in StoreIds : Retrieve(id)
    \/ \E fle \in LiveHandles, ed \in Edits : Modify(fle, ed)
    \/ \E fle \in LiveHandles : Update(fle)
    \/ \E fle \in LiveHandles : Drop(fle)
    \/ \E id \in StoreIds : Delete(id)
    \/ \E id \in StoreIds : RetrieveCopy(id)
    \/ \E fle \in LiveHandles, id \in StoreIds : SaveTo(fle, id)
    \/ \E fle \in LiveHandles, id \in StoreIds : SaveAs(fle, id)
    \/ \E old_id \in StoreIds, new_id \in StoreIds : MoveById(old_id, new_id)

\* callers that create, retrieve, update, release, delete and move entries
NextHooks ==
    \/ \E id \in StoreIds : Create(id)
    \/ \E id \in StoreIds : Retrieve(id)
    \/ \E fle \in LiveHandles : Update(fle)
    \/ \E fle \in LiveHandles : Drop(fle)
    \/ \E id \in StoreIds : Delete(id)
    \/ \E old_id \in StoreIds, new_id \in StoreIds : MoveById(old_id, new_id)

\* callers that register hooks on a store and create, release and delete
\* entries
NextRegister ==
    \/ \E position \in HookPosition, aspect_name \in CallerNames, h \in {Vetoing, Failing} :
          RegisterHook(position, aspect_name, h)
    \/ \E id \in StoreIds : Create(id)
    \/ \E fle \in LiveHandles : Drop(fle)
    \/ \E id \in StoreIds : Delete(id)

\* callers that create, retrieve, edit and release entries until a thread
\* panics under the cache lock, and call every operation after that
NextPoison ==
    \/ \E id \in StoreIds : Create(id)
    \/ \E id \in StoreIds : Retrieve(id)
    \/ \E fle \in LiveHandles : Drop(fle)
    \/ \E fle \in LiveHandles : Panic(fle)
    \/ poisoned /\ \E fle \in LiveHandles : Update(fle)
    \/ poisoned /\ \E id \in StoreIds : Delete(id)
    \/ poisoned /\ \E id \in StoreIds : RetrieveCopy(id)
    \/ poisoned /\ \E fle \in LiveHandles, id \in StoreIds : SaveTo(fle, id)
    \/ poisoned /\ \E fle \in LiveHandles, id \in StoreIds : SaveAs(fle, id)
    \/ poisoned /\ \E old_id \in StoreIds, new_id \in StoreIds : MoveById(old_id, new_id)
    \/ poisoned /\ \E t \in Threads, id \in StoreIds : GetExists(t, id)
    \/ \E t \in Threads : GetContains(t)
    \/ \E t \in Threads : GetRetrieve(t)

\* callers that register hooks, create, release and delete entries, and drop
\* the store in the end
NextUnload ==
    \/ NextRegister
    \/ Unload
    \/ Teardown

\* callers that serialize and parse entries
NextEntry ==
    \/ \E fle \in LiveHandles : ToStr(fle)
    \/ \E id \in {[base |-> Root, path |-> p] : p \in Ids} : FromStr(id)

\* callers that read and change the tags of one header
NextTags ==
    \/ GetTags
    \/ \E ts \in SeqsUpTo(TagNames \cup {NotATagName}, MaxTags) : SetTags(ts)
    \/ \E t \in TagNames \cup {NotATagName} : AddTag(t)
    \/ \E t \in TagNames \cup {NotATagName} : RemoveTag(t)
    \/ \E t \in TagNames \cup {NotATagName} : HasTag(t)
    \/ \E ts \in SeqsUpTo(TagNames \cup {NotATagName}, MaxTags) : HasTags(ts)

\* threads that call the operations and take the locks one at a time
NextLocks ==
    \/ \E t \in Lockers, id \in LockedIds,
          op \in {"create", "retrieve", "get", "update", "drop", "delete", "retrieve_copy"} :
          Call(t, op, id, "")
    \/ \E t \in Lockers, id \in LockedIds, to \in Ids \ LockedIds,
          op \in {"save_to", "save_as", "move_by_id"} :
          Call(t, op, id, to)
    \/ \E t \in Lockers : Lock(t)
    \/ \E t \in Lockers, verdict \in HookVerdicts : PreHooks(t, verdict)
    \/ \E t \in Lockers : Lookup(t)
    \/ \E t \in Lockers : Critical(t)
    \/ \E t \in Lockers, verdict \in HookVerdicts : PostHooks(t, verdict)

\* callers that run one operation at a time
Next ==
    \/ Atomic
    \/ \E id \in StoreIds : Get(id)

\* threads running get concurrently with the operations of other threads
NextThreads ==
    \/ Atomic
    \/ \E t \in Threads, id \in StoreIds : GetExists(t, id)
    \/ \E t \in Threads : GetContains(t)
    \/ \E t \in Threads : GetRetrieve(t)

Spec == Init /\ [][Next]_vars

SpecThreads == Init /\ [][NextThreads]_vars

SpecCreate == Watching({"create"}) /\ [][Next]_vars

SpecRetrieve == Watching({"retrieve"}) /\ [][Next]_vars

SpecGet == Watching({"get"}) /\ [][Next]_vars

SpecDrop == Watching({"drop"}) /\ [][Next]_vars

SpecDelete == Watching({"delete"}) /\ [][Next]_vars

SpecResidency == Watching({"create", "retrieve", "get", "move_by_id"}) /\ [][Next]_vars

SpecMove == Watching({"move_by_id"}) /\ [][Next]_vars

SpecUpdate == Watching({"update", "drop"}) /\ [][Next]_vars

SpecCopy == Watching({"retrieve_copy"}) /\ [][Next]_vars

SpecSave == Watching({"save_to", "save_as"}) /\ [][Next]_vars

SpecRegister == Constructed({"register_hook"}) /\ [][NextRegister]_vars

\* the operations on entries that the store offers
PublicOps == {"create", "retrieve", "get", "update", "delete", "retrieve_copy",
              "save_to", "save_as", "move_by_id"}

SpecPoison == Watching(PublicOps) /\ [][NextPoison]_vars

SpecUnload == Constructed({"unload", "hooks"}) /\ [][NextUnload]_vars

SpecEntry == EntryOrText /\ [][NextEntry]_vars

\* a thread inside an operation goes on, and a lock does not pass a waiting
\* thread by for ever
SpecLocks == Unlocked /\ [][NextLocks]_vars /\ \A t \in Lockers : SF_vars(Step(t))

SpecTags == Tagged /\ [][NextTags]_vars

SpecGetThreads == Watching({"get"}) /\ [][NextThreads]_vars

SpecAssert == Watching({"update", "drop"}) /\ [][NextThreads]_vars

SpecPostHook == WatchingUnversioned({"create", "retrieve"}) /\ [][NextHooks]_vars

SpecHooks ==
    WatchingHooks({"create", "retrieve", "update", "delete", "move_by_id"})
    /\ [][NextHooks]_vars

(***************************************************************************)
(* Vocabulary of the properties                                            *)
(***************************************************************************)
Based(p) == [base |-> Root, path |-> p]

\* the store as it is after the step
StoreAfter == [entries |-> entries', fs |-> fs', handles |-> handles']

\* how many live handles refer to the entry p
HandleCount(p) ==
    BagCardinality([fle \in {h \in LiveHandles : h.location.path = p} |-> handles[fle]])

RecordsOf(p) == {se \in entries : se.id.path = p}

HookVetoes(call) == {PreHookError(call), PostHookError(call)}

(***************************************************************************)
(* C1  Borrow exclusivity: at no moment, under any interleaving of the     *)
(* operations of threads sharing the store, do two live handles refer to   *)
(* the same id.                                                            *)
(***************************************************************************)
C1_BorrowExclusivity == \A p \in Ids : HandleCount(p) <= 1

\* a handle for "a" is live while a thread inside get("a") is about to retrieve it
C1_Witness ==
    /\ HandleCount("a") = 1
    /\ \E t \in Threads : pc[t].stage = "retrieve" /\ pc[t].id = "a"

(***************************************************************************)
(* C2  Cache/handle agreement, as the specification states it: a record is *)
(* Borrowed iff exactly one live handle refers to its id, and Present iff  *)
(* none does.                                                              *)
(***************************************************************************)
C2_CacheHandleAgreement ==
    \A se \in entries :
        /\ se.status = "Borrowed" <=> HandleCount(se.id.path) = 1
        /\ se.status = "Present"  <=> HandleCount(se.id.path) = 0

(***************************************************************************)
(* C3  Handle release, as the specification states it: once a handle has   *)
(* been dropped, the record of its id is Present, so that the id can be    *)
(* borrowed or deleted again (drops whose write-back a pre-update hook     *)
(* vetoed are left aside).                                                 *)
(***************************************************************************)
C3_DropReleases ==
    (last.op = "drop" /\ last.res # PreHookError("UpdateCallError")) =>
        /\ contains_key(entries, Based(last.id))
        /\ ~is_borrowed(cache_get(entries, Based(last.id)))
        /\ retrieve(Store, Based(last.id), OkHooks).res # <<"RetrieveCallError", "EntryAlreadyBorrowed">>
        /\ delete(Store, Based(last.id), OkHooks).res # <<"DeleteCallError", "IdLocked">>

(***************************************************************************)
(* C4  Write-back visibility: when a handle is released and the release    *)
(* reports no error, a retrieve or get of that id that succeeds next       *)
(* returns an entry with the header and the content of the released one.   *)
(***************************************************************************)
C4_WriteBackVisibility ==
    [][\A fle \in LiveHandles :
          (/\ last'.op = "drop" /\ last'.res = Ok /\ last'.id = fle.location.path
           /\ handles' = remove_handle(handles, fle))
          => LET r == retrieve(StoreAfter, fle.location, OkHooks)
                 g == get(StoreAfter, fle.location, OkHooks)
             IN  /\ r.res = Ok => r.handles = add_handle(handles', fle)
                 /\ g.res = Ok => (g.out = "Some" /\ g.handles = add_handle(handles', fle))
      ]_vars

\* an edited entry has been released without error, and retrieve returns it
C4_Witness ==
    /\ last.op = "drop" /\ last.res = Ok /\ last.id = "a"
    /\ HandleCount("a") = 0
    /\ LET r == retrieve(Store, Based("a"), OkHooks)
       IN  /\ r.res = Ok
           /\ r.handles = add_handle(handles, [location |-> Based("a"),
                                               header |-> EditedHeader, content |-> Hai])

(***************************************************************************)
(* C5  Cache residency: after a successful create or retrieve the cache    *)
(* holds exactly one record for the id, keyed by the id based at the store *)
(* root and found by a lookup with the baseless as with the based id; and  *)
(* a record for an id appears only by an operation on that id, so before   *)
(* the first one there is none.                                            *)
(***************************************************************************)
C5_CacheResidency ==
    /\ []((last.op \in {"create", "retrieve"} /\ last.res = Ok) =>
                /\ RecordsOf(last.id) = {cache_get(entries, Based(last.id))}
                /\ cache_get(entries, Based(last.id)).id = Based(last.id)
                /\ \A b \in Bases :
                      /\ contains_key(entries, [base |-> b, path |-> last.id])
                      /\ cache_get(entries, [base |-> b, path |-> last.id]).id
                            = Based(last.id))
    /\ [][\A p \in Ids :
             (RecordsOf(p) = {} /\ RecordsOf(p)' # {})
             => (/\ last'.op \in {"create", "retrieve", "get", "move_by_id"}
                 /\ p \in {last'.id, last'.to})
         ]_vars

\* create of "a" has succeeded on a store that held no record
C5_Witness ==
    /\ last.op = "create" /\ last.res = Ok /\ last.id = "a"
    /\ entries = {[StoreEntry_new(Based("a")) EXCEPT !.status = "Borrowed"]}

(***************************************************************************)
(* C6  Delete resets the id: after a successful delete, whatever happened  *)
(* to the id before, the cache holds no record for it, get returns         *)
(* Ok(None), create succeeds and retrieve yields the default entry.        *)
(***************************************************************************)
C6_DeleteResets ==
    (last.op = "delete" /\ last.res = Ok) =>
        /\ RecordsOf(last.id) = {}
        /\ \A b \in Bases :
              LET id == [base |-> b, path |-> last.id]
                  g  == get(Store, id, OkHooks)
                  r  == retrieve(Store, id, OkHooks)
              IN  /\ ~contains_key(entries, id)
                  /\ g.res = Ok /\ g.out = "None"
                  /\ create(Store, id, OkHooks).res = Ok
                  /\ r.res = Ok
                  /\ r.handles = add_handle(handles, Entry_new(Based(last.id)))

\* "a" has been deleted after an edited entry had been written to it, while a
\* handle for "b" is live
C6_Witness ==
    /\ last.op = "delete" /\ last.res = Ok /\ last.id = "a"
    /\ ~fs[into_pathbuf(Based("a"))].exists
    /\ HandleCount("b") = 1

(***************************************************************************)
(* C7  Duplicate create: whenever the cache holds a record for the id, in  *)
(* either status, create fails and changes neither the cache nor the       *)
(* backing storage; the error is CreateCallError wrapping                  *)
(* EntryAlreadyExists, unless a pre-create hook vetoed the call before the *)
(* cache was looked at.                                                    *)
(***************************************************************************)
C7_DuplicateCreate ==
    [][\A p \in Ids :
          (RecordsOf(p) # {} /\ last'.op = "create" /\ last'.id = p)
          => (/\ last'.res \in {<<"CreateCallError", "EntryAlreadyExists">>,
                                PreHookError("CreateCallError")}
              /\ UNCHANGED <<entries, fs, handles>>)
      ]_vars

\* create has been refused for an id whose record is Present, not borrowed
C7_Witness ==
    /\ last.op = "create" /\ last.res = <<"CreateCallError", "EntryAlreadyExists">>
    /\ \E se \in RecordsOf(last.id) : se.status = "Present"
    /\ fs[into_pathbuf(Based(last.id))].exists

(***************************************************************************)
(* C8  Create on existing storage, as the specification states it: create  *)
(* succeeds only for an id that has no file in backing storage, so that a  *)
(* create followed by a release never replaces a stored entry by a default *)
(* one.                                                                    *)
(***************************************************************************)
C8_CreateRefusesStoredEntry ==
    (last.op = "create" /\ last.res = Ok) => ~exists(fs, Based(last.id))

(***************************************************************************)
(* C9  get: get returns Ok(None) exactly when neither the cache nor the    *)
(* backing storage knows the id, and then it changes nothing; in every     *)
(* other case it does what retrieve does, its errors wrapped in            *)
(* GetCallError.                                                           *)
(***************************************************************************)
C9_Get ==
    [][\A p \in Ids :
          (last'.op = "get" /\ last'.id = p)
          => LET known == exists(fs, Based(p)) \/ contains_key(entries, Based(p))
             IN  /\ last'.out = "None" <=> ~known
                 /\ last'.out = "None" =>
                       (last'.res = Ok /\ UNCHANGED <<entries, fs, handles>>)
                 /\ known =>
                       \E hk \in CreateHooks :
                          LET r == retrieve(Store, Based(p), hk)
                          IN  /\ StoreAfter = [entries |-> r.entries, fs |-> r.fs,
                                               handles |-> r.handles]
                              /\ last'.out = r.out
                              /\ last'.res = IF r.res = Ok THEN Ok
                                             ELSE <<"GetCallError">> \o r.res
      ]_vars

\* get has returned Ok(None) and the cache is still without a record for the id
C9_Witness ==
    /\ last.op = "get" /\ last.res = Ok /\ last.out = "None"
    /\ RecordsOf(last.id) = {}
    /\ \E q \in Ids : HandleCount(q) = 1

(***************************************************************************)
(* C10  Implicit create by retrieve: retrieve of an id that neither the    *)
(* cache nor the backing storage knows succeeds, unless a hook aborts it,  *)
(* with a default entry: a header that verifies, empty content, the id     *)
(* based at the store root as location; and it leaves a Borrowed record.   *)
(***************************************************************************)
C10_ImplicitCreate ==
    [][\A p \in Ids :
          (/\ last'.op = "retrieve" /\ last'.id = p
           /\ ~contains_key(entries, Based(p)) /\ ~exists(fs, Based(p)))
          => (/\ last'.res \in {Ok} \cup HookVetoes("RetrieveCallError")
              /\ last'.res = Ok =>
                    /\ handles' = add_handle(handles, Entry_new(Based(p)))
                    /\ verify(Entry_new(Based(p)).header)
                    /\ Entry_new(Based(p)).content = << >>
                    /\ contains_key(entries', Based(p))
                    /\ cache_get(entries', Based(p)) =
                          [id |-> Based(p), file |-> into_pathbuf(Based(p)),
                           status |-> "Borrowed"])
      ]_vars

\* retrieve has made a default entry for "b", which no file backs
C10_Witness ==
    /\ last.op = "retrieve" /\ last.res = Ok /\ last.id = "b"
    /\ ~exists(fs, Based("b"))
    /\ Entry_new(Based("b")) \in LiveHandles
    /\ is_borrowed(cache_get(entries, Based("b")))

(***************************************************************************)
(* C11  Second borrow: retrieve of an id whose record is Borrowed fails    *)
(* with RetrieveCallError wrapping EntryAlreadyBorrowed (get wraps that in *)
(* GetCallError), unless a pre-retrieve hook aborted the call before;      *)
(* either way no handle is returned and the cache record, the existing     *)
(* handle and the backing storage stay as they are.                        *)
(***************************************************************************)
C11_SecondBorrow ==
    [][\A p \in Ids :
          (/\ last'.op = "retrieve" /\ last'.id = p
           /\ contains_key(entries, Based(p))
           /\ is_borrowed(cache_get(entries, Based(p))))
          => (/\ last'.res \in {<<"RetrieveCallError", "EntryAlreadyBorrowed">>,
                                PreHookError("RetrieveCallError")}
              /\ last'.out = ""
              /\ UNCHANGED <<entries, fs, handles>>
              /\ \A b \in Bases, hk \in CreateHooks :
                    LET g == get(Store, [base |-> b, path |-> p], hk)
                    IN  /\ g.res \in
                             {<<"GetCallError", "RetrieveCallError", "EntryAlreadyBorrowed">>,
                              <<"GetCallError">> \o PreHookError("RetrieveCallError")}
                        /\ g.out = ""
                        /\ <<g.entries, g.fs, g.handles>> = <<entries, fs, handles>>)
      ]_vars

\* retrieve has been refused for an id whose handle is live
C11_Witness ==
    /\ last.op = "retrieve"
    /\ last.res = <<"RetrieveCallError", "EntryAlreadyBorrowed">>
    /\ HandleCount(last.id) = 1
    /\ is_borrowed(cache_get(entries, Based(last.id)))

(***************************************************************************)
(* C12  Delete of a borrowed id: delete of an id whose record is Borrowed  *)
(* fails with DeleteCallError wrapping IdLocked, unless a pre-delete hook  *)
(* aborted the call before, and changes nothing: the record stays          *)
(* Borrowed, the handle stays, no file is removed; the verdict of the      *)
(* post-delete hooks never shows, as they do not run.                      *)
(***************************************************************************)
C12_DeleteBorrowed ==
    [][\A p \in Ids :
          (/\ last'.op = "delete" /\ last'.id = p
           /\ contains_key(entries, Based(p))
           /\ is_borrowed(cache_get(entries, Based(p))))
          => (/\ last'.res \in {<<"DeleteCallError", "IdLocked">>,
                                PreHookError("DeleteCallError")}
              /\ UNCHANGED <<entries, fs, handles>>)
      ]_vars

\* delete has been refused for an id whose handle is live and whose file exists
C12_Witness ==
    /\ last.op = "delete" /\ last.res = <<"DeleteCallError", "IdLocked">>
    /\ HandleCount(last.id) = 1
    /\ is_borrowed(cache_get(entries, Based(last.id)))
    /\ exists(fs, Based(last.id))

(***************************************************************************)
(* C13  Delete of an untouched entry, as the specification states it:      *)
(* delete fails with DeleteCallError(FileNotFound) only for an id that     *)
(* refers to no existing entry, never for an id for which get returns an   *)
(* entry.                                                                  *)
(***************************************************************************)
C13_FileNotFoundOnlyIfAbsent ==
    (last.op = "delete" /\ last.res = <<"DeleteCallError", "FileNotFound">>)
        => get(Store, Based(last.id), OkHooks).out # "Some"

(***************************************************************************)
(* C14  Failed delete, as the specification states it: when delete returns *)
(* an error that is not the error of a post-delete hook, the cache record  *)
(* and the backing file of the id are exactly as before the call.          *)
(***************************************************************************)
C14_FailedDeleteKeeps ==
    [][\A p \in Ids :
          (/\ last'.op = "delete" /\ last'.id = p
           /\ last'.res \notin {Ok, PostHookError("DeleteCallError")})
          => (/\ RecordsOf(p)' = RecordsOf(p)
              /\ fs'[into_pathbuf(Based(p))] = fs[into_pathbuf(Based(p))])
      ]_vars

C16_RefusedMove ==
    [][\A a \in Ids, b \in Ids :
          (last'.op = "move_by_id" /\ last'.id = a /\ last'.to = b)
          => LET resident == contains_key(entries, Based(b))
                 borrowed == /\ contains_key(entries, Based(a))
                             /\ is_borrowed(cache_get(entries, Based(a)))
             IN  /\ resident =>
                       last'.res \in {<<"EntryAlreadyExists">>,
                                      PreHookError("MoveByIdCallError")}
                 /\ (borrowed /\ ~resident) =>
                       last'.res \in {<<"EntryAlreadyBorrowed">>,
                                      PreHookError("MoveByIdCallError")}
                 /\ (resident \/ borrowed) => UNCHANGED <<entries, fs, handles>>
      ]_vars

\* a move of "a", whose handle is live and whose file exists, has been refused
C16_Witness ==
    /\ last.op = "move_by_id" /\ last.res = <<"EntryAlreadyBorrowed">>
    /\ last.id = "a" /\ last.to = "b"
    /\ HandleCount("a") = 1
    /\ exists(fs, Based("a"))
    /\ RecordsOf("b") = {}

(***************************************************************************)
(* C17  Moves that must fail, as the specification states it: a            *)
(* move_by_id(old, new) of distinct ids returns an error and moves nothing *)
(* when old has no file in backing storage, and likewise when new has one, *)
(* resident in the cache or not: an entry at new is never overwritten.     *)
(***************************************************************************)
C17_MoveNeverOverwrites ==
    [][\A a \in Ids : \A b \in Ids \ {a} :
          (/\ last'.op = "move_by_id" /\ last'.id = a /\ last'.to = b
           /\ (~exists(fs, Based(a)) \/ exists(fs, Based(b))))
          => (/\ last'.res \notin {Ok, PostHookError("MoveByIdCallError")}
              /\ UNCHANGED <<entries, fs>>)
      ]_vars

(***************************************************************************)
(* C18  Hook sequence of move_by_id, as the specification states it: the   *)
(* pre-move group runs first and once, on old; when the move returns Ok    *)
(* the post-move group has then run once on new; the pre-move group is     *)
(* never run with new.                                                     *)
(***************************************************************************)
C18_MoveHookSequence ==
    (last.op = "move_by_id" /\ last.id # last.to) =>
        /\ last.ran # << >>
        /\ last.ran[1] = <<"pre_move_aspects", last.id>>
        /\ \A i \in 2..Len(last.ran) : last.ran[i] # <<"pre_move_aspects", last.to>>
        /\ last.res = Ok =>
              last.ran = << <<"pre_move_aspects", last.id>>,
                            <<"post_move_aspects", last.to>> >>

\* the call-site kind of each public operation
CallSiteKind(op) ==
    CASE op = "create"        -> "CreateCallError"
      [] op = "retrieve"      -> "RetrieveCallError"
      [] op = "get"           -> "GetCallError"
      [] op = "update"        -> "UpdateCallError"
      [] op = "delete"        -> "DeleteCallError"
      [] op = "retrieve_copy" -> "RetrieveCopyCallError"
      [] op = "save_to"       -> "MoveCallError"
      [] op = "save_as"       -> "MoveCallError"
      [] op = "move_by_id"    -> "MoveByIdCallError"

(***************************************************************************)
(* C19  Call-site wrapping, as the specification states it: every error a  *)
(* public operation returns has the call-site kind of that operation as    *)
(* its outermost kind, whatever the cause.                                 *)
(***************************************************************************)
C19_CallSiteWrapping ==
    (last.op \in PublicOps /\ last.res # Ok) => last.res[1] = CallSiteKind(last.op)

(***************************************************************************)
(* C20  A move preserves the entry, as the specification states it: after  *)
(* a successful move_by_id(a, b) of a released resident entry the record   *)
(* keyed b has the borrow status the record keyed a had; retrieve(b)       *)
(* returns the header and content that retrieve(a) would have returned     *)
(* before the move; and when that handle is released, the write-back goes  *)
(* to the path of b and leaves no file at the path of a.                   *)
(***************************************************************************)
C20_MovePreservesEntry ==
    [][\A a \in Ids : \A b \in Ids \ {a} :
          (/\ last'.op = "move_by_id" /\ last'.res = Ok
           /\ last'.id = a /\ last'.to = b
           /\ contains_key(entries, Based(a)))
          => /\ contains_key(entries', Based(b))
             /\ LET sa == cache_get(entries, Based(a))
                    sb == cache_get(entries', Based(b))
                    ea == get_entry(sa, fs)
                    r  == retrieve(StoreAfter, Based(b), OkHooks)
                    h  == [ea.entry EXCEPT !.location = Based(b)]
                    d  == drop([entries |-> r.entries, fs |-> r.fs,
                                handles |-> r.handles], h, OkHooks)
                IN  /\ sb.status = sa.status
                    /\ ea.res = Ok =>
                          /\ r.res = Ok
                          /\ r.handles = add_handle(handles', h)
                          /\ verify(h.header) =>
                                /\ ~exists(d.fs, Based(a))
                                /\ d.fs[into_pathbuf(Based(b))] = File(to_str(h))
      ]_vars

\* the hooks of an execution ended on an abort-error
Aborted(trace) == trace # << >> /\ trace[Len(trace)][3] = "abort"

\* the group an operation executes on its id before it does anything else
PreGroup(op) ==
    CASE op = "create"     -> "pre_create_aspects"
      [] op = "retrieve"   -> "pre_retrieve_aspects"
      [] op = "update"     -> "pre_update_aspects"
      [] op = "delete"     -> "pre_delete_aspects"
      [] op = "move_by_id" -> "pre_move_aspects"

\* the step is the operation op vetoed by a hook of its pre group
PreVetoed(op) ==
    /\ last'.op = op
    /\ last'.calls # << >>
    /\ last'.calls[1][1] = PreGroup(op)
    /\ Aborted(last'.calls[1][3])

\* res is HookExecutionError caused by kind, inside the call-site kind of op
\* (which update puts around its errors twice)
HookChain(op, kind, res) ==
    \E k \in 1..2 :
       res = [i \in 1..k |-> CallSiteKind(op)] \o <<"HookExecutionError", kind>>

(***************************************************************************)
(* C21  Pre-hook veto: when a hook of the pre group of create, retrieve,   *)
(* delete, update or move_by_id returns an abort-error, the operation      *)
(* fails with its call-site kind around HookExecutionError around          *)
(* PreHookExecuteError, and nothing has changed: the cache holds the same  *)
(* records with the same status, backing storage the same files.           *)
(***************************************************************************)
C21_PreHookVeto ==
    [][\A op \in {"create", "retrieve", "delete", "update", "move_by_id"} :
          PreVetoed(op)
          => (/\ HookChain(op, "PreHookExecuteError", last'.res)
              /\ UNCHANGED <<entries, fs, handles>>)
      ]_vars

\* create("a") was vetoed by the hook of the second pre-create aspect, after a
\* hook of the first had failed without aborting, and the cache does not hold "a"
C21_Witness ==
    /\ last.op = "create" /\ last.id = "a"
    /\ last.res = PreHookError("CreateCallError")
    /\ last.calls = << <<"pre_create_aspects", "a",
                         << <<1, 1, "continue">>, <<1, 2, "ok">>, <<2, 1, "abort">> >> >> >>
    /\ ~contains_key(entries, Based("a"))
    /\ entries # {}

\* the groups behind the pipelines of an operation
GroupsOf(op) ==
    CASE op = "create"     -> CreateGroups
      [] op = "retrieve"   -> RetrieveGroups
      [] op = "update"     -> UpdateGroups
      [] op = "drop"       -> UpdateGroups
      [] op = "delete"     -> DeleteGroups
      [] op = "move_by_id" -> MoveGroups

\* what the operation op on the entry p may return from the present state when
\* its pipelines reach the verdicts hk
Applied(op, p, hk) ==
    CASE op = "create"   -> {create(Store, Based(p), hk)}
      [] op = "retrieve" -> {retrieve(Store, Based(p), hk)}
      [] op = "delete"   -> {delete(Store, Based(p), hk)}
      [] op = "update"   -> {update(Store, fle, hk) :
                               fle \in {h \in LiveHandles : h.location.path = p}}
      [] op = "drop"     -> {drop(Store, fle, hk) :
                               fle \in {h \in LiveHandles : h.location.path = p}}

\* some hook that was called failed without aborting
Continued(calls) ==
    \E i \in 1..Len(calls) : \E j \in 1..Len(calls[i][3]) : calls[i][3][j][3] = "continue"

\* the verdicts of the pipelines of an operation whose hooks returned what
\* calls lists, had every hook that failed without aborting succeeded instead
CalmVerdicts(gs, calls) ==
    [n \in {"pre", "post", "upre", "upost", "lock"} |->
        IF n # "lock" /\ \E i \in 1..Len(calls) : calls[i][1] = gs[n] /\ Aborted(calls[i][3])
        THEN "abort" ELSE "ok"]

\* the hooks <<a, h>> of the aspects g from the a-th on, in the order of the
\* configuration and of registration
RECURSIVE HooksFrom(_, _)
HooksFrom(g, a) ==
    IF a > Len(g) THEN << >> ELSE [h \in 1..Len(g[a]) |-> <<a, h>>] \o HooksFrom(g, a + 1)

\* the hooks of every configuration's groups
HookOrder == [cfg \in Configs |-> [g \in Groups |-> HooksFrom(cfg[g], 1)]]

\* every hook of the group was called, in order, unless one aborted
Complete(group, trace) ==
    LET hooks == HookOrder[aspects][group]
    IN  /\ Len(trace) <= Len(hooks)
        /\ \A j \in 1..Len(trace) : <<trace[j][1], trace[j][2]>> = hooks[j]
        /\ Aborted(trace) \/ Len(trace) = Len(hooks)

(***************************************************************************)
(* C22  Continue-errors do not veto: when hooks of create, retrieve,       *)
(* update or delete, at a pre or a post position, fail with an error       *)
(* marked non-aborting, the hooks after them are called all the same, and  *)
(* the operation returns the same result and leaves the same cache,        *)
(* backing storage and handles as it does when these hooks succeed.        *)
(***************************************************************************)
C22_ContinueErrors ==
    [][\A op \in {"create", "retrieve", "update", "delete"} :
          (last'.op = op /\ Continued(last'.calls))
          => /\ \A i \in 1..Len(last'.calls) :
                   Complete(last'.calls[i][1], last'.calls[i][3])
             /\ \E r \in Applied(op, last'.id, CalmVerdicts(GroupsOf(op), last'.calls)) :
                   /\ r.ran = [i \in 1..Len(last'.calls) |->
                                  <<last'.calls[i][1], last'.calls[i][2]>>]
                   /\ r.res = last'.res
                   /\ r.out = last'.out
                   /\ r.entries = entries'
                   /\ r.fs = fs'
                   /\ r.handles = handles'
      ]_vars

\* update of "a" succeeded and wrote the entry although a hook of either
\* post-update aspect failed, and the hook between them was called
C22_Witness ==
    /\ last.op = "update" /\ last.id = "a"
    /\ last.res = Ok
    /\ last.calls = << <<"pre_update_aspects", "a", << <<1, 1, "ok">> >> >>,
                       <<"post_update_aspects", "a",
                         << <<1, 1, "continue">>, <<1, 2, "ok">>, <<2, 1, "continue">> >> >> >>
    /\ exists(fs, Based("a"))

(***************************************************************************)
(* C23  Hook order: whenever an operation has executed an aspect group,    *)
(* its hooks were called aspect by aspect in configured order and, within  *)
(* an aspect, in registration order; none was left out unless a hook       *)
(* returned an abort-error, and after an abort-error no hook was called    *)
(* any more, neither of the same aspect nor of a later one.                *)
(***************************************************************************)
C23_HookOrder ==
    \A i \in 1..Len(last.calls) :
       LET trace == last.calls[i][3]
       IN  /\ Complete(last.calls[i][1], trace)
           /\ \A j \in 1..(Len(trace) - 1) : trace[j][3] # "abort"

\* delete("a") removed the entry; of the post-delete hooks the first failed
\* without aborting, the second aborted, and the second aspect was not called
C23_Witness ==
    /\ last.op = "delete" /\ last.id = "a"
    /\ last.res = PostHookError("DeleteCallError")
    /\ Len(aspects["post_delete_aspects"]) = 2
    /\ last.calls = << <<"pre_delete_aspects", "a", << <<1, 1, "ok">> >> >>,
                       <<"post_delete_aspects", "a",
                         << <<1, 1, "continue">>, <<1, 2, "abort">> >> >> >>

\* the step executed the group and one of its hooks returned an abort-error
GroupAborted(group) ==
    \E i \in 1..Len(last'.calls) :
       last'.calls[i][1] = group /\ Aborted(last'.calls[i][3])

(***************************************************************************)
(* C24  Post-hook failure non-rollback: when create(id) or retrieve(id)    *)
(* fails because a post-create / post-retrieve hook returned an            *)
(* abort-error, the record of id is resident afterwards and is not left    *)
(* borrowed: a get(id) that follows returns Some(handle).  (The handle     *)
(* the failed call had built is released inside the call; the statement    *)
(* is taken for releases that no pre-update hook vetoes.)                  *)
(***************************************************************************)
C24_PostHookFailure ==
    [][\A op \in {"create", "retrieve"} : \A p \in Ids :
          (/\ last'.op = op /\ last'.id = p
           /\ GroupAborted(IF op = "create" THEN "post_create_aspects"
                                             ELSE "post_retrieve_aspects")
           /\ ~GroupAborted("pre_update_aspects"))
          => (/\ last'.res = PostHookError(CallSiteKind(op))
              /\ contains_key(entries', Based(p))
              /\ ~is_borrowed(cache_get(entries', Based(p)))
              /\ LET g == get(StoreAfter, Based(p), OkHooks)
                 IN  g.res = Ok /\ g.out = "Some")
      ]_vars

(***************************************************************************)
(* C25  Post-delete failure: when delete(id) fails only because a          *)
(* post-delete hook returned an abort-error, the cache record and the      *)
(* backing file of id are gone all the same, and a create(id) that         *)
(* follows succeeds and hands out a fresh default entry.                   *)
(***************************************************************************)
C25_PostDeleteFailure ==
    [][\A p \in Ids :
          (/\ last'.op = "delete" /\ last'.id = p
           /\ last'.res = PostHookError("DeleteCallError"))
          => (/\ contains_key(entries, Based(p))
              /\ exists(fs, Based(p))
              /\ ~contains_key(entries', Based(p))
              /\ ~exists(fs', Based(p))
              /\ LET c == create(StoreAfter, Based(p), OkHooks)
                 IN  /\ c.res = Ok /\ c.out = "Some"
                     /\ c.handles = add_handle(handles', Entry_new(Based(p)))
                     /\ is_borrowed(cache_get(c.entries, Based(p)))
                     /\ c.fs = fs')
      ]_vars

\* delete("a") failed in its post-delete hooks while "b" is borrowed and
\* edited; neither the record nor the file of "a" is left
C25_Witness ==
    /\ last.op = "delete" /\ last.id = "a"
    /\ last.res = PostHookError("DeleteCallError")
    /\ ~contains_key(entries, Based("a"))
    /\ ~exists(fs, Based("a"))
    /\ \E fle \in LiveHandles : fle.location.path = "b" /\ fle.header = EditedHeader

(***************************************************************************)
(* C26  Update verification gate: an update, explicit or performed when    *)
(* the handle is dropped, of an entry whose header fails verification      *)
(* returns HeaderInconsistency, writes nothing to backing storage, runs    *)
(* no post-update hook and leaves the status of the cache record as it     *)
(* was.  (An update that a pre-update hook vetoes does not get as far as   *)
(* the verification.)                                                      *)
(***************************************************************************)
C26_VerificationGate ==
    [][\A op \in {"update", "drop"} : \A p \in Ids :
          (/\ last'.op = op /\ last'.id = p
           /\ \A fle \in LiveHandles : fle.location.path = p => ~verify(fle.header)
           /\ contains_key(entries, Based(p))
           /\ is_borrowed(cache_get(entries, Based(p)))
           /\ last'.ran # << >>
           /\ \A i \in DOMAIN last'.res : last'.res[i] # "PreHookExecuteError")
          => (/\ last'.res = IF op = "update"
                             THEN <<"UpdateCallError", "HeaderInconsistency">>
                             ELSE <<"HeaderInconsistency">>
              /\ fs' = fs
              /\ entries' = entries
              /\ last'.ran = Group("pre_update_aspects", Based(p)))
      ]_vars

\* update of "a" was refused for the header the caller had written: the handle
\* is live, the record borrowed and the file the one the store started with
C26_Witness ==
    /\ last.op = "update" /\ last.id = "a"
    /\ last.res = <<"UpdateCallError", "HeaderInconsistency">>
    /\ \E fle \in LiveHandles : fle.location.path = "a" /\ fle.header = BrokenHeader
    /\ is_borrowed(cache_get(entries, Based("a")))
    /\ fs[into_pathbuf(Based("a"))] = File(TEST_ENTRY)

\* the record of p is in the cache of es, and Borrowed
Borrowed(es, p) ==
    contains_key(es, Based(p)) /\ is_borrowed(cache_get(es, Based(p)))

(***************************************************************************)
(* C27  Explicit update keeps the borrow: a successful update(handle)      *)
(* writes the entry of the handle to backing storage and leaves the cache  *)
(* record Borrowed and the handle valid, so that further updates succeed;  *)
(* a Borrowed record becomes Present only where a handle of its id is      *)
(* released, and no step ends a borrow (record no longer Borrowed, or      *)
(* gone) other than by releasing a handle whose entry it has written back. *)
(***************************************************************************)
C27_UpdateKeepsBorrow ==
    [][\A p \in Ids :
          /\ \A fle \in LiveHandles :
                (/\ last'.op = "update" /\ last'.id = p /\ last'.res = Ok
                 /\ fle.location.path = p
                 /\ HandleCount(p) = 1)
                => (/\ Borrowed(entries, p) /\ Borrowed(entries', p)
                    /\ fs'[cache_get(entries, Based(p)).file] = File(to_str(fle))
                    /\ handles' = handles
                    /\ LET u1 == update(StoreAfter, fle, OkHooks)
                           u2 == update(u1, fle, OkHooks)
                       IN  /\ u1.res = Ok /\ u2.res = Ok
                           /\ Borrowed(u2.entries, p)
                           /\ u2.handles = handles)
          /\ (Borrowed(entries, p) /\ ~Borrowed(entries', p))
             => (/\ contains_key(entries', Based(p))
                 /\ \E fle \in LiveHandles :
                       /\ fle.location.path = p
                       /\ handles' = remove_handle(handles, fle)
                       /\ fs'[cache_get(entries, Based(p)).file] = File(to_str(fle)))
      ]_vars

\* an edited entry has been written by update: the file holds it, the record
\* is still borrowed and the handle still live
C27_Witness ==
    /\ last.op = "update" /\ last.id = "a" /\ last.res = Ok
    /\ Borrowed(entries, "a")
    /\ \E fle \in LiveHandles :
          /\ fle.location.path = "a" /\ fle.header = EditedHeader
          /\ fs[into_pathbuf(Based("a"))] = File(to_str(fle))

(***************************************************************************)
(* C28  retrieve_copy(id) fails with IdLocked if and only if id is         *)
(* Borrowed when it is called; whether it succeeds or fails, it inserts    *)
(* and removes no record, changes no status and writes nothing to backing  *)
(* storage.                                                                *)
(***************************************************************************)
C28_RetrieveCopy ==
    [][\A p \in Ids :
          (last'.op = "retrieve_copy" /\ last'.id = p)
          => (/\ ("IdLocked" \in {last'.res[i] : i \in DOMAIN last'.res})
                    <=> Borrowed(entries, p)
              /\ Borrowed(entries, p)
                    => last'.res = <<"RetrieveCopyCallError", "IdLocked">>
              /\ entries' = entries
              /\ fs' = fs
              /\ handles' = handles)
      ]_vars

\* retrieve_copy of "a" was refused while a handle on "a" is out, and "b" is
\* resident without having been copied
C28_Witness ==
    /\ last.op = "retrieve_copy" /\ last.id = "a"
    /\ last.res = <<"RetrieveCopyCallError", "IdLocked">>
    /\ Borrowed(entries, "a") /\ HandleCount("a") = 1
    /\ contains_key(entries, Based("b")) /\ ~Borrowed(entries, "b")

(***************************************************************************)
(* C29  save_to(handle, new_id) and save_as(handle, new_id), as the        *)
(* specification states them: they fail with EntryAlreadyExists whenever   *)
(* a file for new_id exists in backing storage, resident or not, and then  *)
(* copy nothing and overwrite nothing; when they succeed they have run the *)
(* post-move hooks on new_id and the cache holds no record for new_id that *)
(* it did not hold before.                                                 *)
(***************************************************************************)
C29_SaveRefusesStoredEntry ==
    [][\A op \in {"save_to", "save_as"} : \A p \in Ids, q \in Ids :
          (last'.op = op /\ last'.id = p /\ last'.to = q)
          => /\ exists(fs, Based(q))
                => (/\ last'.res = <<"MoveCallError", "EntryAlreadyExists">>
                    /\ fs'[into_pathbuf(Based(q))] = fs[into_pathbuf(Based(q))])
             /\ last'.res = Ok
                => (/\ Group("post_move_aspects", Based(q)) = SubSeq(last'.ran, 1, 1)
                    /\ contains_key(entries', Based(q)) = contains_key(entries, Based(q)))
      ]_vars

(***************************************************************************)
(* C30  save_as removes the original, as the specification states it: once *)
(* a successful save_as(handle, new_id) has returned and the handle it     *)
(* consumed is released, the source id has no backing file and the file of *)
(* new_id holds the copy of what the source file was.                      *)
(***************************************************************************)
C30_SaveAsRemovesOriginal ==
    [][\A p \in Ids, q \in Ids :
          (last'.op = "save_as" /\ last'.id = p /\ last'.to = q /\ last'.res = Ok)
          => (/\ ~exists(fs', Based(p))
              /\ fs'[into_pathbuf(Based(q))] = fs[into_pathbuf(Based(p))])
      ]_vars

\* the places of the aspects named aspect_name in the group g
Named(g, aspect_name) == {a \in 1..Len(aspects[g]) : AspectNames[a] = aspect_name}

\* the step is a register_hook at the position for the aspect name, and it
\* does what the specification says of it
RegistersAsSpecified(position, aspect_name) ==
    LET g == position_aspects(position)
    IN  (last'.op = "register_hook" /\ last'.id = position /\ last'.to = aspect_name)
        => /\ entries' = entries /\ fs' = fs /\ handles' = handles
           /\ \A other \in AllGroups \ {g} : aspects'[other] = aspects[other]
           /\ IF Named(g, aspect_name) = {}
              THEN /\ last'.res = <<"HookRegisterError", "AspectNameNotFoundError">>
                   /\ aspects' = aspects
              ELSE /\ last'.res = Ok
                   /\ \E h \in {Vetoing, Failing} : \E a \in Named(g, aspect_name) :
                         aspects'[g] = [aspects[g] EXCEPT ![a] = Append(@, h)]

\* a hook can be registered in the group g, which the store executes
CanRegisterIn(g) ==
    \E position \in HookPosition, aspect_name \in CallerNames :
       LET r == register_hook(aspects, position, aspect_name, Vetoing)
       IN  r.res = Ok /\ r.aspects[g] # aspects[g]

(***************************************************************************)
(* C31  register_hook(position, aspect_name, hook), as the specification   *)
(* states it: it fails with HookRegisterError caused by AspectNameNotFound *)
(* and registers nothing when the group of the position has no aspect of   *)
(* that name; otherwise it appends the hook to the named aspect of that    *)
(* position only and leaves every other group and the cache as they were;  *)
(* and in every group the store executes that has an aspect, the pre-move  *)
(* and post-move groups included, a hook can be registered.                *)
(***************************************************************************)
C31_RegisterHook ==
    [][/\ \A position \in HookPosition, aspect_name \in CallerNames :
             RegistersAsSpecified(position, aspect_name)
       /\ \A g \in AllGroups : aspects[g] # << >> => CanRegisterIn(g)
      ]_vars

\* what an operation returned is LockPoisoned, under its call-site kinds if
\* it has any
CausedBy(res, kind) == res # << >> /\ res[Len(res)] = kind

(***************************************************************************)
(* C32  Lock poisoning is never recovered: once the cache lock is          *)
(* poisoned, every create, retrieve, get, update, delete, retrieve_copy,   *)
(* save_to, save_as and move_by_id returns an error whose cause is         *)
(* LockPoisoned, and no step changes the cache or backing storage or       *)
(* makes the lock sound again.  (An operation that one of its pre-hooks    *)
(* vetoes returns before it asks for the lock.)                            *)
(***************************************************************************)
C32_LockPoisoning ==
    [][poisoned =>
          /\ poisoned'
          /\ entries' = entries
          /\ fs' = fs
          /\ last'.op \in PublicOps
                => (\/ CausedBy(last'.res, "LockPoisoned")
                    \/ CausedBy(last'.res, "PreHookExecuteError"))
      ]_vars

\* delete of "b", resident and not borrowed, was refused for the poisoned lock
C32_Witness ==
    /\ poisoned
    /\ last.op = "delete" /\ last.id = "b"
    /\ last.res = <<"DeleteCallError", "LockPoisoned">>
    /\ contains_key(entries, Based("b")) /\ ~Borrowed(entries, "b")
    /\ exists(fs, Based("b"))

\* the trace is one execution of the unload group as registered: its hooks in
\* order, each once, up to the first that aborts
UnloadedOnce(trace) ==
    LET hooks == HooksFrom(aspects["store_unload_aspects"], 1)
    IN  /\ Len(trace) <= Len(hooks)
        /\ \A j \in 1..Len(trace) : <<trace[j][1], trace[j][2]>> = hooks[j]
        /\ Aborted(trace) \/ Len(trace) = Len(hooks)

Written(e) == fs[into_pathbuf(Based("a"))] = File(to_str(e))

(***************************************************************************)
(* C34  Round-trip, as the specification states it: for every entry e      *)
(* whose header verifies, whatever its content (empty, or with lines that  *)
(* are ---), Entry::from_str(e.location, e.to_str()) succeeds and returns  *)
(* an entry equal to e in location, header and content.                    *)
(***************************************************************************)
C34_RoundTrip ==
    [][\A e \in LiveHandles :
          (last'.op = "from_str" /\ Written(e) /\ verify(e.header))
          => (last'.res = Ok /\ handles' = SetToBag({e}))
      ]_vars

\* the lines of the text that are ---
Fences(text) == {i \in 1..Len(text) : text[i].kind = "fence"}

\* what the specification has from_str return on the text: the split at the
\* first two fence lines
SplitAtFirstPair(loc, text) ==
    IF Cardinality(Fences(text)) < 2
    THEN [res |-> <<"MalformedEntry">>, entry |-> NoEntry]
    ELSE LET first  == Min(Fences(text))
             second == Min(Fences(text) \ {first})
             h      == header_parse(SubSeq(text, first + 1, second - 1))
         IN  IF h.ok
             THEN [res |-> Ok,
                   entry |-> [location |-> loc, header |-> h.header,
                              content |-> SubSeq(text, second + 1, Len(text))]]
             ELSE [res |-> <<"HeaderError">>, entry |-> NoEntry]

(***************************************************************************)
(* C35  Fence splitting, as the specification states it: Entry::from_str   *)
(* splits the text at the first pair of --- lines: the header is the text  *)
(* between the first and the second of them and all that follows the       *)
(* second is content, further --- lines included; a text without two ---   *)
(* lines fails with MalformedEntry and a header that does not parse with a *)
(* header error.                                                           *)
(***************************************************************************)
C35_FenceSplitting ==
    [][\A p \in Ids :
          (last'.op = "from_str" /\ last'.id = p)
          => LET r == SplitAtFirstPair(Based(p), fs[into_pathbuf(Based(p))].text)
             IN  /\ last'.res = r.res
                 /\ handles' = IF r.res = Ok THEN SetToBag({r.entry}) ELSE EmptyBag
      ]_vars

\* the operation ended in a failed assertion or, for an update, found no
\* record for the handle it was given
AssertionFailed(res) ==
    \E i \in DOMAIN res :
       res[i] \in {"panic: Tried to update a non borrowed entry.", MoveAssertion,
                   "IdNotFound"}

(***************************************************************************)
(* C36  Assertion validity: in every reachable state and under every       *)
(* interleaving of the threads, the cache holds a Borrowed record for the  *)
(* id of every live handle, so that _update, run by update or by the       *)
(* release of a handle, never fails its assertion "Tried to update a non   *)
(* borrowed entry" and never returns IdNotFound; and the assertion of      *)
(* move_by_id, that re-keying replaces no record, never fails.  No         *)
(* assertion fails, so the cache lock is never poisoned.                   *)
(***************************************************************************)
C36_AssertionValidity ==
    /\ \A fle \in LiveHandles : Borrowed(entries, fle.location.path)
    /\ last.op \in {"update", "drop"} => ~AssertionFailed(last.res)
    /\ ~poisoned

\* a thread is inside get, between its existence test and its retrieve, when
\* the release of a handle for b has written b back and a handle for a,
\* whose record is Borrowed, is still out
C36_Witness ==
    /\ \E t \in Threads : pc[t].stage = "retrieve"
    /\ last.op = "drop" /\ last.id = "b" /\ last.res = Ok
    /\ \E fle \in LiveHandles : fle.location.path = "a"
    /\ Borrowed(entries, "a")

(***************************************************************************)
(* C37  get does not implicitly create under concurrency: a get(id) that   *)
(* other threads' delete(id) or move_by_id(id, other) interleave with      *)
(* never inserts a record for, and never returns an entry of, an id that   *)
(* at that moment neither the cache nor the storage knows.                 *)
(***************************************************************************)
C37_GetNeverCreates ==
    [][\A p \in Ids :
          (/\ last'.op = "get" /\ last'.id = p
           /\ ~contains_key(entries, Based(p))
           /\ ~exists(fs, Based(p)))
          => (/\ ~contains_key(entries', Based(p))
              /\ last'.out # "Some")
      ]_vars

\* retrieve failed while it built the entry from the record: the record is
\* borrowed already, or its file is no entry or has a header that does not parse
FailedMaterializing(res) ==
    /\ Len(res) >= 2
    /\ res[1] = "RetrieveCallError"
    /\ res[2] \notin {"HookExecutionError", "LockPoisoned"}

(***************************************************************************)
(* C39  A retrieve(id) that fails while it materializes the entry leaves   *)
(* the cache as it was: no record is added and no status changes, so no    *)
(* record is left Borrowed without a handle.                               *)
(***************************************************************************)
C39_FailedRetrieve ==
    [][(last'.op = "retrieve" /\ FailedMaterializing(last'.res))
          => (entries' = entries /\ handles' = handles)
      ]_vars

\* imag.tags is absent or an array of valid tag strings
ValidTags(header) == header.kind \in {"None", "Array"} /\ get_tags(header).res = Ok

\* the tags that get_tags returns
TagsOf(header) == {get_tags(header).tags[i] : i \in DOMAIN get_tags(header).tags}

NoDuplicates(seq) == \A i, j \in DOMAIN seq : seq[i] = seq[j] => i = j

(***************************************************************************)
(* C40  Tag queries agree with tag mutations, for a header whose imag.tags *)
(* is absent or an array of valid tag strings: has_tag(t) returns Ok(true) *)
(* exactly when t is in the list that get_tags returns; after a successful *)
(* add_tag(t), has_tag(t) is Ok(true); after a successful remove_tag(t),   *)
(* has_tag(t) is Ok(false); and after a successful set_tags, add_tag or    *)
(* remove_tag the stored array has no duplicates.                          *)
(***************************************************************************)
C40_TagQueries ==
    [][ValidTags(imag_tags) =>
          /\ last'.op = "has_tag"
                => ((last'.res = Ok /\ last'.out = "true")
                       <=> last'.id \in TagsOf(imag_tags))
          /\ (last'.op = "add_tag" /\ last'.res = Ok)
                => has_tag(imag_tags', last'.id) = [res |-> Ok, out |-> "true"]
          /\ (last'.op = "remove_tag" /\ last'.res = Ok)
                => has_tag(imag_tags', last'.id) = [res |-> Ok, out |-> "false"]
          /\ (last'.op \in {"set_tags", "add_tag", "remove_tag"} /\ last'.res = Ok)
                => NoDuplicates(imag_tags'.items)
      ]_vars

\* the thread can take its next step
Runnable(t) ==
    \/ pc[t].stage \in {"in_pre", "in_post", "in_post_locked"}
    \/ /\ pc[t].stage \in {"pre", "read", "cache", "post", "post_locked"}
       /\ Grantable(Wanted(pc[t]))

\* no thread waits for the cache lock with the guard of an aspect group or of
\* the cache in its hands
LockOrder ==
    \A t \in Lockers :
       Wanted(pc[t]) \in {"entries.read", "entries.write"} => HeldLocks(pc[t]) = {}

====
